---- MODULE Spec2Model ----
(***************************************************************************)
(* Model of the IMPI phonetic search client (IMPIBuscadorFonetico) of      *)
(* impi_fonetico_COMPLETO.py: the retry loop of buscar_fonetica, the       *)
(* ViewState acquisition, the pagination loop of                           *)
(* _ejecutar_busqueda_fonetica, the response parser and the row mapper     *)
(* and validator.  The registry (the remote server) is the environment:    *)
(* every request either fails with an exception or returns a body.         *)
(* Also the response parser of the viability analyser                     *)
(* (AnalizadorViabilidadGemini) of analizador_viabilidad_gemini.py, whose  *)
(* environment is the text returned by the analysis service.               *)
(***************************************************************************)
EXTENDS Integers, Sequences, FiniteSets, TLC

VARIABLES
    viewstate,        \* self.viewstate: Nada (None), Algo("") or Algo(token)
    pc,               \* position of the caller inside buscar_fonetica
    marca,            \* argument marca (sequence of characters)
    clase_niza,       \* argument clase_niza: Nada or Algo(int)
    max_reintentos,   \* argument max_reintentos: Nada or Algo(int)
    reintentos,       \* local reintentos of buscar_fonetica
    intento,          \* loop variable of buscar_fonetica
    pagina,           \* local pagina of _ejecutar_busqueda_fonetica
    todas_marcas,     \* local todas_marcas
    total_registros,  \* local total_registros
    resultado,        \* value returned by the last call: Nada or Algo(r)
    peticiones,       \* history: form data of the POSTs of the current attempt
    intentos,         \* history: attempts started in the current call
    bootstraps,       \* history: bootstrap GETs made in the current call
    esperas,          \* history: retry delays slept in the current call
    cuentas,          \* history: records parsed from each page of the current attempt
    vistos,           \* history: some page of the current call yielded records
    ultima,           \* history: what the last step of the call observed
    hilos,            \* request handlers of the web application, by thread
    entrada,          \* what the text given to the analyser was built from
    response_text,    \* the text given to _parsear_respuesta_gemini
    analisis,         \* history: what the calls of _parsear_respuesta_gemini returned
    consulta          \* the call of buscar_impi_denominacion: position, locals, outcome

vars == <<viewstate, pc, marca, clase_niza, max_reintentos, reintentos,
          intento, pagina, todas_marcas, total_registros, resultado,
          peticiones, intentos, bootstraps, esperas, cuentas,
          vistos, ultima, hilos, entrada, response_text, analisis,
          consulta>>

gemini == <<entrada, response_text, analisis>>

----------------------------------------------------------------------------
(* Bounds of the model *)

MaxReintentosArg == 2   \* largest max_reintentos a caller passes
MaxTotal == 11          \* largest total_registros of the search given to the analyser
MaxLlamadas == 2        \* calls of _parsear_respuesta_gemini on one text
MasGrande == 1000       \* a reported count of further records that is never reached
FilasConRara == 2       \* valid rows of a page that also has an unusual row

(* Program constants *)

MAX_REINTENTOS == 3     \* ConfigIMPI.MAX_REINTENTOS
max_paginas == 20       \* local max_paginas
FilasPorPagina == 15    \* the literal 15 of the pagination code
MinCeldas == 8          \* the literal 8 of _parsear_fila_marca
STATUS_OK == 200        \* the literal 200 of buscar_impi_denominacion
RESPUESTA_GRANDE == 5000 \* the literal 5000 of buscar_impi_denominacion
ClaseMin == 1           \* lower limit of the Nice class
ClaseMax == 45          \* upper limit of the Nice class

----------------------------------------------------------------------------
(* Optional values (Python None) *)

Nada == <<>>
Algo(v) == <<v>>
Valor(o) == o[1]

(* Strings are sequences of characters, so that strip() and int() can be *)
(* computed on them. *)

Espacios == {" ", "\t", "\n"}

RECURSIVE LStrip(_)
LStrip(s) ==
    IF s # <<>> /\ Head(s) \in Espacios THEN LStrip(Tail(s)) ELSE s

RECURSIVE RStrip(_)
RStrip(s) ==
    IF s # <<>> /\ s[Len(s)] \in Espacios
    THEN RStrip(SubSeq(s, 1, Len(s) - 1))
    ELSE s

Strip(s) == RStrip(LStrip(s))

Mayuscula(c) ==
    CASE c = "n" -> "N"
      [] c = "i" -> "I"
      [] c = "k" -> "K"
      [] c = "e" -> "E"
      [] OTHER -> c

Upper(s) == [i \in 1..Len(s) |-> Mayuscula(s[i])]

Digitos == {"0", "1", "2", "3", "4", "5", "6", "7", "8", "9"}

ValorDigito(c) ==
    CASE c = "0" -> 0 [] c = "1" -> 1 [] c = "2" -> 2 [] c = "3" -> 3
      [] c = "4" -> 4 [] c = "5" -> 5 [] c = "6" -> 6 [] c = "7" -> 7
      [] c = "8" -> 8 [] c = "9" -> 9

RECURSIVE ValorDigitos(_)
ValorDigitos(s) ==
    IF s = <<>> THEN 0
    ELSE 10 * ValorDigitos(SubSeq(s, 1, Len(s) - 1)) + ValorDigito(s[Len(s)])

SoloDigitos(s) == s # <<>> /\ \A i \in 1..Len(s) : s[i] \in Digitos

(* Python int(str): surrounding whitespace is ignored, one sign is allowed, *)
(* the rest must be decimal digits; anything else raises ValueError (Nada). *)
ParseInt(s) ==
    LET t == Strip(s)
        signo == t # <<>> /\ Head(t) \in {"+", "-"}
        d == IF signo THEN Tail(t) ELSE t
    IN  IF ~SoloDigitos(d) THEN Nada
        ELSE IF signo /\ Head(t) = "-" THEN Algo(0 - ValorDigitos(d))
        ELSE Algo(ValorDigitos(d))

----------------------------------------------------------------------------
(* Table rows.  A row is the sequence of its td cells; a cell has the text *)
(* of the td and, when the td wraps its content in an anchor, the text of  *)
(* the anchor. *)

Celda(t) == [texto |-> t, enlace |-> Nada]
CeldaConEnlace(t) == [texto |-> t, enlace |-> Algo(t)]

(* get_text(strip=True) of a cell or of its anchor *)
TextoCelda(c) == Strip(c.texto)
TextoEnlace(c) == Strip(Valor(c.enlace))

(* MarcaInfo.__init__: every text field is stripped, None becomes "" *)
MarcaInfo(denominacion, expediente, titular, clase, estado, tipo, registro) ==
    [denominacion |-> Strip(denominacion),
     expediente |-> Strip(expediente),
     registro |-> Strip(registro),
     titular |-> Strip(titular),
     clase |-> Strip(clase),
     estado |-> Strip(estado),
     tipo |-> Strip(tipo)]

_extraer_texto_celda(celdas, indice) ==
    IF indice < Len(celdas) THEN TextoCelda(celdas[indice + 1]) ELSE <<>>

_parsear_fila_marca_sin_minimo(fila) ==
    Algo(MarcaInfo(_extraer_texto_celda(fila, 6),
                   _extraer_texto_celda(fila, 4),
                   _extraer_texto_celda(fila, 3),
                   _extraer_texto_celda(fila, 7),
                   <<>>,
                   _extraer_texto_celda(fila, 1),
                   _extraer_texto_celda(fila, 5)))

(* _parsear_fila_marca: Nada for a row of fewer than 8 cells, otherwise the *)
(* record read by column position (0-based columns 1, 3, 4, 5, 6, 7). *)
_parsear_fila_marca(fila) ==
    IF Len(fila) < MinCeldas THEN Nada
    ELSE LET expediente_td == fila[5]
             denominacion_td == fila[7]
             expediente == IF expediente_td.enlace # Nada
                           THEN TextoEnlace(expediente_td)
                           ELSE TextoCelda(expediente_td)
             denominacion == IF denominacion_td.enlace # Nada
                             THEN TextoEnlace(denominacion_td)
                             ELSE TextoCelda(denominacion_td)
         IN  Algo(MarcaInfo(denominacion, expediente,
                            _extraer_texto_celda(fila, 3),
                            _extraer_texto_celda(fila, 7),
                            <<>>,
                            _extraer_texto_celda(fila, 1),
                            _extraer_texto_celda(fila, 5)))

(* _validar_marca: the minimum fields are present and clase is 1..45 *)
_validar_marca(m) ==
    IF m.denominacion = <<>> THEN FALSE
    ELSE IF m.expediente = <<>> THEN FALSE
    ELSE IF m.clase = <<>> THEN FALSE
    ELSE LET clase_num == ParseInt(m.clase)
         IN  IF clase_num = Nada THEN FALSE
             ELSE IF Valor(clase_num) < ClaseMin \/ Valor(clase_num) > ClaseMax
                  THEN FALSE
                  ELSE TRUE

(* the loop "for fila in filas" of the AJAX branch: every mapped row is *)
(* appended *)
RECURSIVE MarcasDeFilasAjax(_)
MarcasDeFilasAjax(filas) ==
    IF filas = <<>> THEN <<>>
    ELSE LET m == _parsear_fila_marca(Head(filas))
         IN  (IF m # Nada THEN <<Valor(m)>> ELSE <<>>)
                 \o MarcasDeFilasAjax(Tail(filas))

(* the loop "for fila in filas" of _extraer_marcas_de_tabla: a mapped row *)
(* is appended when _validar_marca accepts it *)
RECURSIVE MarcasDeFilasTabla(_)
MarcasDeFilasTabla(filas) ==
    IF filas = <<>> THEN <<>>
    ELSE LET m == _parsear_fila_marca(Head(filas))
         IN  (IF m # Nada /\ _validar_marca(Valor(m)) THEN <<Valor(m)>> ELSE <<>>)
                 \o MarcasDeFilasTabla(Tail(filas))

(* _extraer_marcas_de_tabla on the parsed document of a plain HTML body: *)
(* tabla / tbody say whether the lookups find the element, filas are the  *)
(* rows matched by class and filas_tr every tr of the table. *)
_extraer_marcas_de_tabla(doc) ==
    IF ~doc.tabla THEN <<>>
    ELSE IF ~doc.tbody THEN <<>>
    ELSE LET filas == IF doc.filas # <<>> THEN doc.filas
                      ELSE IF Len(doc.filas_tr) > 1 THEN Tail(doc.filas_tr)
                      ELSE doc.filas_tr
         IN  MarcasDeFilasTabla(filas)

(* the loop over the CDATA blocks of a partial-response: the first block  *)
(* that mentions the result table and has its tbody is parsed, the rest   *)
(* are skipped.  The result is <<marcas, total_registros>>. *)
RECURSIVE ParsearBloques(_)
ParsearBloques(bloques) ==
    IF bloques = <<>> THEN <<<<>>, 0>>
    ELSE LET b == Head(bloques)
         IN  IF b.tabla /\ b.tbody
             THEN LET marcas == MarcasDeFilasAjax(b.filas)
                  IN  IF b.mas # Nada
                      THEN <<marcas, Len(marcas) + Valor(b.mas)>>
                      ELSE <<marcas, Len(marcas)>>
             ELSE ParsearBloques(Tail(bloques))

(* _parsear_resultados_fonetica.  forma "ilegible" is a body on which the *)
(* parsing raises: the except clause logs and the initial ([], 0) is      *)
(* returned. *)
_parsear_resultados_fonetica(response) ==
    CASE response.forma = "ilegible" -> <<<<>>, 0>>
      [] response.forma = "ajax" -> ParsearBloques(response.bloques)
      [] response.forma = "html" ->
            LET marcas == _extraer_marcas_de_tabla(response.doc)
            IN  <<marcas, Len(marcas)>>

----------------------------------------------------------------------------
(* The registry: what a page request can return *)

Texto(n) == ToString(n)

(* a well-formed row of the result table: 9 cells, expediente and          *)
(* denominacion wrapped in anchors, identified by attempt, page and row    *)
FilaValida(k, p, i) ==
    << Celda(<<Texto(i)>>),
       Celda(<<"M">>),
       Celda(<<>>),
       Celda(<<"T", Texto(i)>>),
       CeldaConEnlace(<<" ", "E", Texto(k), Texto(p), Texto(i)>>),
       Celda(<<"R", Texto(i)>>),
       CeldaConEnlace(<<"D", Texto(p), Texto(i), "\n">>),
       Celda(<<" ", "7">>),
       Celda(<<>>) >>

ConCelda(fila, j, c) == [fila EXCEPT ![j] = c]

FilasRaras ==
    {"corta", "ocho_celdas", "sin_denominacion", "sin_expediente",
     "sin_clase", "clase_46", "clase_0", "clase_no_numerica",
     "clase_negativa"}

FilaRara(tipo, k, p) ==
    LET f == FilaValida(k, p, 0)
    IN  CASE tipo = "corta" -> SubSeq(f, 1, 5)
          [] tipo = "ocho_celdas" -> SubSeq(f, 1, 8)
          [] tipo = "sin_denominacion" -> ConCelda(f, 7, CeldaConEnlace(<<" ">>))
          [] tipo = "sin_expediente" -> ConCelda(f, 5, Celda(<<>>))
          [] tipo = "sin_clase" -> ConCelda(f, 8, Celda(<<"\n">>))
          [] tipo = "clase_46" -> ConCelda(f, 8, Celda(<<"4", "6">>))
          [] tipo = "clase_0" -> ConCelda(f, 8, Celda(<<"0">>))
          [] tipo = "clase_no_numerica" -> ConCelda(f, 8, Celda(<<"4", "a">>))
          [] tipo = "clase_negativa" -> ConCelda(f, 8, Celda(<<"-", "7">>))

(* n well-formed rows; an unusual row, if any, comes after the first row *)
Filas(k, p, n, rara) ==
    LET validas == [i \in 1..n |-> FilaValida(k, p, i)]
    IN  IF rara = "ninguna" THEN validas
        ELSE IF n = 0 THEN <<FilaRara(rara, k, p)>>
        ELSE <<validas[1], FilaRara(rara, k, p)>> \o Tail(validas)

FilaCabecera == <<Celda(<<"#">>), Celda(<<"TS">>)>>

(* the "y N marcas mas" text of a block: absent or a number *)
MasValores == {Nada, Algo(1), Algo(MasGrande)}

(* row counts of the pages the registry serves: an empty page, a short    *)
(* page, a full page; unusual rows come in short pages *)
PaginasPosibles ==
    {<<n, "ninguna">> : n \in {0, FilasPorPagina - 1, FilasPorPagina}}
        \cup {<<FilasPorPagina, "corta">>}
        \cup {<<FilasConRara, r>> : r \in FilasRaras}

CuerpoAjax(filas, mas, tbody) ==
    [forma |-> "ajax",
     bloques |-> << [tabla |-> FALSE, tbody |-> FALSE, mas |-> Nada, filas |-> <<>>],
                    [tabla |-> TRUE, tbody |-> tbody, mas |-> mas, filas |-> filas] >>]

CuerpoHtml(filas, por_clase) ==
    [forma |-> "html",
     doc |-> [tabla |-> TRUE, tbody |-> TRUE,
              filas |-> IF por_clase THEN filas ELSE <<>>,
              filas_tr |-> <<FilaCabecera>> \o filas]]

(* the bodies the registry serves, each described by its shape, its rows  *)
(* and its count of further records *)
Cuerpos ==
    {[forma |-> "ajax", pagina |-> f, mas |-> mas, variante |-> "tabla"] :
        f \in {g \in PaginasPosibles : g[2] \in {"ninguna", "corta"}},
        mas \in MasValores}
    \cup {[forma |-> "ajax", pagina |-> f, mas |-> Nada, variante |-> "tabla"] :
        f \in PaginasPosibles}
    \cup {[forma |-> "ajax", pagina |-> <<FilasPorPagina, "ninguna">>,
           mas |-> Nada, variante |-> v] : v \in {"sin_tbody", "sin_cdata"}}
    \cup {[forma |-> "html", pagina |-> f, mas |-> Nada, variante |-> v] :
        f \in PaginasPosibles, v \in {"tabla", "sin_clase_de_fila"}}
    \cup {[forma |-> "html", pagina |-> <<FilasPorPagina, "ninguna">>,
           mas |-> Nada, variante |-> "sin_tabla"]}
    \cup {[forma |-> "ilegible", pagina |-> <<0, "ninguna">>,
           mas |-> Nada, variante |-> "ilegible"]}

(* the body described by c, served for page p of attempt k *)
Cuerpo(c, k, p) ==
    LET filas == Filas(k, p, c.pagina[1], c.pagina[2])
    IN  CASE c.forma = "ilegible" -> [forma |-> "ilegible"]
          [] c.forma = "ajax" /\ c.variante = "sin_cdata" ->
                [forma |-> "ajax", bloques |-> <<>>]
          [] c.forma = "ajax" /\ c.variante # "sin_cdata" ->
                CuerpoAjax(filas, c.mas, c.variante = "tabla")
          [] c.forma = "html" /\ c.variante = "sin_tabla" ->
                [forma |-> "html",
                 doc |-> [tabla |-> FALSE, tbody |-> FALSE,
                          filas |-> <<>>, filas_tr |-> <<>>]]
          [] c.forma = "html" /\ c.variante # "sin_tabla" ->
                CuerpoHtml(filas, c.variante = "tabla")

(* exceptions a request can raise, by class *)
Excepciones ==
    {"ReadTimeout", "ConnectTimeout", "ConnectionError", "HTTPError", "Otra"}

EsTimeout(e) == e \in {"ReadTimeout", "ConnectTimeout"}
EsRequestException(e) ==
    e \in {"ReadTimeout", "ConnectTimeout", "ConnectionError", "HTTPError"}

(* str(e) *)
Detalle(e) == e

(* what a request can end in: an exception or a body *)
Respuestas ==
    {[excepcion |-> Algo(e)] : e \in Excepciones}
        \cup {[excepcion |-> Nada, cuerpo |-> c] : c \in Cuerpos}

(* tokens the bootstrap page can carry *)
Tokens == {"vs1"}
TokensHilos == {"vs1", "vs2"}

(* the threads in which the web server runs api_buscar_impi *)
Hilos == {"h1", "h2"}

----------------------------------------------------------------------------
(* buscar_fonetica and _ejecutar_busqueda_fonetica *)

(* Python truthiness of an optional integer and of the held token *)
EnteroVerdadero(o) == o # Nada /\ Valor(o) # 0
TokenVerdadero(o) == o # Nada /\ Valor(o) # ""

Marcas == {<<>>, <<" ", "\t">>, <<" ", "n", "i", "k", "e">>, <<"n">>}
Clases == {Nada, Algo(0 - 1), Algo(0), Algo(7), Algo(ClaseMax + 1)}
Reintentos == {Nada} \cup {Algo(r) : r \in (0 - 1)..MaxReintentosArg}

MarcaValida == <<" ", "n", "i", "k", "e">>

(* the calls made on the client: any term with the defaults, a class      *)
(* filter with a single attempt, or a retry limit without class filter    *)
Argumentos ==
    {<<m, Nada, Nada>> : m \in Marcas}
        \cup {<<MarcaValida, c, Algo(1)>> : c \in Clases}
        \cup {<<MarcaValida, Nada, r>> : r \in Reintentos}

_resultado_error_sin_error(m, clase, error) ==
    [marca_consultada |-> m,
     clase_consultada |-> clase,
     marcas_encontradas |-> <<>>,
     exito |-> FALSE,
     total_registros |-> 0,
     error |-> Nada]

_resultado_error(m, clase, error) ==
    [marca_consultada |-> m,
     clase_consultada |-> clase,
     marcas_encontradas |-> <<>>,
     exito |-> FALSE,
     total_registros |-> 0,
     error |-> Algo(error)]

ResultadoExitoso(m, clase, marcas, total) ==
    [marca_consultada |-> m,
     clase_consultada |-> clase,
     marcas_encontradas |-> marcas,
     exito |-> TRUE,
     total_registros |-> total,
     error |-> Nada]

ConfigurarReintentos_fijo(r) == MAX_REINTENTOS

(* reintentos = max_reintentos if max_reintentos else MAX_REINTENTOS *)
ConfigurarReintentos(r) ==
    IF EnteroVerdadero(r) THEN Valor(r) ELSE MAX_REINTENTOS

ErrorDeExcepcion_orden(e) ==
    IF EsRequestException(e) THEN <<"Error de conexión: ", Detalle(e)>>
    ELSE IF EsTimeout(e) THEN <<"Timeout: el servidor tardó demasiado">>
    ELSE <<"Error inesperado: ", Detalle(e)>>

(* the error of the except clause that catches e *)
ErrorDeExcepcion(e) ==
    IF EsTimeout(e) THEN <<"Timeout: el servidor tardó demasiado">>
    ELSE IF EsRequestException(e) THEN <<"Error de conexión: ", Detalle(e)>>
    ELSE <<"Error inesperado: ", Detalle(e)>>

Reintentable_cualquiera(e) == TRUE

(* the except clauses that let the for loop go on: the error is returned  *)
(* only from the last attempt *)
Reintentable(e) == EsTimeout(e) \/ EsRequestException(e)
EsUltimoIntento(i, n) == i = n
SiguienteIntento_mismo(i) == i
SiguienteIntento(i) == i + 1

DatosPeticion_fila_siguiente(m, clase, vs, p) ==
    [source |-> IF p = 0 THEN "frmBsqFonetica:busquedaId2"
                ELSE "frmBsqFonetica:resultadoExpediente",
     denominacion |-> Upper(Strip(m)),
     busquedaId2 |-> p = 0,
     pagination |-> IF p = 0 THEN Nada
                    ELSE Algo([first |-> p * 15 + 1, rows |-> 15]),
     clases |-> IF EnteroVerdadero(clase) THEN clase ELSE Nada,
     ViewState |-> IF TokenVerdadero(vs) THEN vs ELSE Nada]

(* the form data of the request for page p *)
DatosPeticion(m, clase, vs, p) ==
    [source |-> IF p = 0 THEN "frmBsqFonetica:busquedaId2"
                ELSE "frmBsqFonetica:resultadoExpediente",
     denominacion |-> Upper(Strip(m)),
     busquedaId2 |-> p = 0,
     pagination |-> IF p = 0 THEN Nada
                    ELSE Algo([first |-> p * 15, rows |-> 15]),
     clases |-> IF EnteroVerdadero(clase) THEN clase ELSE Nada,
     ViewState |-> IF TokenVerdadero(vs) THEN vs ELSE Nada]

Extender_al_frente(todas, marcas_pagina) == marcas_pagina \o todas

(* todas_marcas.extend(marcas_pagina) *)
Extender(todas, marcas_pagina) == todas \o marcas_pagina

(* total_registros = total if total > 0 else len(todas_marcas) *)
TotalAcumulado(total, todas) == IF total > 0 THEN total ELSE Len(todas)

(* the two break conditions that follow the extend *)
EsPaginaCorta_menos_uno(marcas_pagina) == Len(marcas_pagina) < FilasPorPagina - 1
EsPaginaCorta(marcas_pagina) == Len(marcas_pagina) < FilasPorPagina
TotalAlcanzado(todas, total) == total > 0 /\ Len(todas) >= total

SigueElBucle_uno_mas(p) == p <= max_paginas

(* while pagina < max_paginas *)
SigueElBucle(p) == p < max_paginas

(* what the body says about further records: the "y N marcas más" count   *)
(* of the block that is parsed, Nada when the body carries none *)
RECURSIVE MasDeBloques(_)
MasDeBloques(bloques) ==
    IF bloques = <<>> THEN Nada
    ELSE IF Head(bloques).tabla /\ Head(bloques).tbody THEN Head(bloques).mas
    ELSE MasDeBloques(Tail(bloques))

MasReportado(cuerpo) ==
    IF cuerpo.forma = "ajax" THEN MasDeBloques(cuerpo.bloques) ELSE Nada

(* the history counters stop counting at TopeContador, above the        *)
(* largest number of attempts of a call *)
TopeContador ==
    (IF MaxReintentosArg > MAX_REINTENTOS THEN MaxReintentosArg
     ELSE MAX_REINTENTOS) + 1
Contar(n) == IF n < TopeContador THEN n + 1 ELSE n

(* what the parser makes of each body, for every attempt and page it can  *)
(* be served for: the value of _parsear_resultados_fonetica, the reported *)
(* count of further records, and whether the parsing raised *)
PaginaLeida ==
    [k \in 1..TopeContador, p \in 0..max_paginas, c \in Cuerpos |->
        LET cuerpo == Cuerpo(c, k, p)
        IN  [parseado |-> _parsear_resultados_fonetica(cuerpo),
             reportado |-> MasReportado(cuerpo),
             ilegible |-> cuerpo.forma = "ilegible"]] @@ <<>>

LocalesIniciales_conserva ==
    UNCHANGED <<pagina, todas_marcas, total_registros>>

(* the locals of _ejecutar_busqueda_fonetica as it starts *)
LocalesIniciales ==
    /\ pagina' = 0
    /\ todas_marcas' = <<>>
    /\ total_registros' = 0

(* buscar_impi_denominacion has not been called *)
ConsultaLibre ==
    [pc |-> "libre", marca |-> <<>>, marca_buscar |-> <<>>,
     response_inicial |-> Nada, viewstate |-> Nada,
     response_busqueda |-> Nada, retorno |-> Nada, lanzada |-> Nada]

(* no text has been given to the analyser *)
SinEntrada ==
    [clase |-> "ninguna", puntaje |-> "", riesgo |-> "", cerca |-> "",
     resto |-> FALSE, corte |-> 0, nombre |-> ""]

HiloLibre ==
    [pc |-> "libre", cliente |-> "", intento |-> 0, pagina |-> 0,
     enviado |-> Nada]

Retornar_sin_resultado(r) ==
    /\ resultado' = resultado
    /\ pc' = "inactivo"
    /\ intento' = 0
    /\ LocalesIniciales

(* return r: the call ends with r and its locals are gone *)
Retornar(r) ==
    /\ resultado' = Algo(r)
    /\ pc' = "inactivo"
    /\ intento' = 0
    /\ LocalesIniciales

Init ==
    /\ viewstate = Nada
    /\ pc = "inactivo"
    /\ marca = <<>>
    /\ clase_niza = Nada
    /\ max_reintentos = Nada
    /\ reintentos = 0
    /\ intento = 0
    /\ pagina = 0
    /\ todas_marcas = <<>>
    /\ total_registros = 0
    /\ resultado = Nada
    /\ peticiones = <<>>
    /\ intentos = 0
    /\ bootstraps = 0
    /\ esperas = 0
    /\ cuentas = <<>>
    /\ vistos = FALSE
    /\ ultima = [tipo |-> "inicio"]
    /\ hilos = [h \in Hilos |-> HiloLibre]
    /\ entrada = SinEntrada
    /\ response_text = <<>>
    /\ analisis = <<>>
    /\ consulta = ConsultaLibre

(* buscar_fonetica(m, c, r) up to the first attempt: input validation and *)
(* the retry limit *)
Llamar(m, c, r) ==
    /\ pc = "inactivo"
    /\ marca' = m
    /\ clase_niza' = c
    /\ max_reintentos' = r
    /\ peticiones' = <<>>
    /\ intentos' = 0
    /\ bootstraps' = 0
    /\ esperas' = 0
    /\ cuentas' = <<>>
    /\ vistos' = FALSE
    /\ ultima' = [tipo |-> "llamada"]
    /\ UNCHANGED <<viewstate, hilos, gemini, consulta>>
    /\ IF m = <<>> \/ Strip(m) = <<>>
       THEN /\ Retornar(_resultado_error(m, c, <<"Marca vacía">>))
            /\ reintentos' = 0
       ELSE IF EnteroVerdadero(c) /\ (Valor(c) < ClaseMin \/ Valor(c) > ClaseMax)
       THEN /\ Retornar(_resultado_error(m, c, <<"Clase de Niza inválida">>))
            /\ reintentos' = 0
       ELSE /\ reintentos' = ConfigurarReintentos(r)
            /\ IF 1 < ConfigurarReintentos(r) + 1
               THEN /\ intento' = 1
                    /\ pc' = "intento"
                    /\ resultado' = Nada
                    /\ LocalesIniciales
               ELSE Retornar(_resultado_error(m, c,
                        <<"Máximo de reintentos alcanzado">>))

(* _obtener_viewstate: the outcomes of the bootstrap GET.  A token found  *)
(* in the page is kept; a page without the marker and any exception leave *)
(* the empty token. *)
ResultadosBootstrap(tokens) ==
    {[caso |-> "token", viewstate |-> Algo(t)] : t \in tokens}
        \cup {[caso |-> "sin_marcador", viewstate |-> Algo("")]}
        \cup {[caso |-> "excepcion", viewstate |-> Algo("")]}

IniciarIntento_sin_adquirir ==
    /\ pc = "intento"
    /\ intentos' = Contar(intentos)
    /\ esperas' = IF intento > 1 THEN Contar(esperas) ELSE esperas
    /\ UNCHANGED <<viewstate, bootstraps>>
    /\ ultima' = [tipo |-> "intento", bootstrap |-> "ninguno"]
    /\ LocalesIniciales
    /\ peticiones' = <<>>
    /\ cuentas' = <<>>
    /\ pc' = "pagina"
    /\ UNCHANGED <<marca, clase_niza, max_reintentos, reintentos, intento,
                   resultado, vistos, hilos, gemini, consulta>>

(* the start of an attempt: the retry delay, the ViewState if none is     *)
(* held, and the locals of _ejecutar_busqueda_fonetica *)
IniciarIntento ==
    /\ pc = "intento"
    /\ intentos' = Contar(intentos)
    /\ esperas' = IF intento > 1 THEN Contar(esperas) ELSE esperas
    /\ IF ~TokenVerdadero(viewstate)
       THEN \E b \in ResultadosBootstrap(Tokens) :
                /\ viewstate' = b.viewstate
                /\ bootstraps' = Contar(bootstraps)
                /\ ultima' = [tipo |-> "intento", bootstrap |-> b.caso]
       ELSE /\ UNCHANGED <<viewstate, bootstraps>>
            /\ ultima' = [tipo |-> "intento", bootstrap |-> "ninguno"]
    /\ LocalesIniciales
    /\ peticiones' = <<>>
    /\ cuentas' = <<>>
    /\ pc' = "pagina"
    /\ UNCHANGED <<marca, clase_niza, max_reintentos, reintentos, intento,
                   resultado, vistos, hilos, gemini, consulta>>

(* one iteration of the while loop: the POST, the parse of the body and   *)
(* the termination tests; an exception of the POST goes to the except     *)
(* clauses of buscar_fonetica *)
PeticionPagina ==
    /\ pc = "pagina"
    /\ SigueElBucle(pagina)
    /\ peticiones' = Append(peticiones,
                            DatosPeticion(marca, clase_niza, viewstate, pagina))
    /\ UNCHANGED <<viewstate, marca, clase_niza, max_reintentos, reintentos,
                   intentos, bootstraps, esperas, hilos, gemini, consulta>>
    /\ \E response \in Respuestas :
        IF response.excepcion # Nada
        THEN LET e == Valor(response.excepcion)
             IN  /\ ultima' = [tipo |-> "pagina", pagina |-> pagina,
                               excepcion |-> response.excepcion,
                               marcas |-> <<>>, total |-> 0,
                               reportado |-> Nada, ilegible |-> FALSE,
                               con_fila_corta |-> Nada]
                 /\ UNCHANGED <<cuentas, vistos>>
                 /\ IF Reintentable(e) /\ ~EsUltimoIntento(intento, reintentos)
                    THEN /\ intento' = SiguienteIntento(intento)
                         /\ pc' = "intento"
                         /\ UNCHANGED <<resultado, pagina, todas_marcas,
                                        total_registros>>
                    ELSE Retornar(_resultado_error(marca, clase_niza,
                                                   ErrorDeExcepcion(e)))
        ELSE \E leido \in {PaginaLeida[intento, pagina, response.cuerpo]} :
             \E todas \in {Extender(todas_marcas, leido.parseado[1])} :
             LET marcas_pagina == leido.parseado[1]
                 total == leido.parseado[2]
                 acumulado == TotalAcumulado(total, todas)
             IN  /\ ultima' = [tipo |-> "pagina", pagina |-> pagina,
                               excepcion |-> Nada,
                               marcas |-> marcas_pagina, total |-> total,
                               reportado |-> leido.reportado,
                               ilegible |-> leido.ilegible,
                               con_fila_corta |->
                                   IF response.cuerpo.pagina[2] = "corta"
                                   THEN Algo(response.cuerpo.pagina[1])
                                   ELSE Nada]
                 /\ cuentas' = Append(cuentas, Len(marcas_pagina))
                 /\ vistos' = (vistos \/ marcas_pagina # <<>>)
                 /\ IF marcas_pagina = <<>>
                    THEN Retornar(ResultadoExitoso(marca, clase_niza,
                                      todas_marcas, total_registros))
                    ELSE IF \/ EsPaginaCorta(marcas_pagina)
                            \/ TotalAlcanzado(todas, acumulado)
                            \/ ~SigueElBucle(pagina + 1)
                    THEN Retornar(ResultadoExitoso(marca, clase_niza,
                                      todas, acumulado))
                    ELSE /\ pagina' = pagina + 1
                         /\ todas_marcas' = todas
                         /\ total_registros' = acumulado
                         /\ UNCHANGED <<pc, intento, resultado>>

Next ==
    \/ \E a \in Argumentos : Llamar(a[1], a[2], a[3])
    \/ IniciarIntento
    \/ PeticionPagina

Spec == Init /\ [][Next]_vars

(* the thread that runs the call keeps running, and every request ends,   *)
(* with a response or with an exception, within its timeout *)
SpecJusta == Spec /\ WF_vars(IniciarIntento) /\ WF_vars(PeticionPagina)

----------------------------------------------------------------------------
(* The web application: app_interno_original.py creates one client,       *)
(* buscador_impi, when the module is loaded, and every request handler    *)
(* api_buscar_impi calls buscar_fonetica on it.  The handlers run in the  *)
(* threads of the server, so their calls interleave at the network        *)
(* requests.  viewstate is the token of that one client. *)

secuencial == <<pc, marca, clase_niza, max_reintentos, reintentos, intento,
                pagina, todas_marcas, total_registros, resultado, peticiones,
                intentos, bootstraps, esperas, cuentas, vistos, ultima>>

(* the ViewState field of a page request: present when the token is truthy *)
CampoViewState(vs) == IF TokenVerdadero(vs) THEN vs ELSE Nada

(* api_buscar_impi: the handler of thread h calls buscar_fonetica on the  *)
(* module-level client *)
api_buscar_impi(h) ==
    /\ hilos[h].pc = "libre"
    /\ hilos' = [hilos EXCEPT ![h] =
                    [pc |-> "intento", cliente |-> "buscador_impi",
                     intento |-> 1, pagina |-> 0, enviado |-> Nada]]
    /\ UNCHANGED <<viewstate, secuencial, gemini, consulta>>

(* the start of an attempt in thread h: "if not self.viewstate" *)
HiloIniciarIntento(h) ==
    /\ hilos[h].pc = "intento"
    /\ hilos' = [hilos EXCEPT ![h].pc =
                    IF TokenVerdadero(viewstate) THEN "pagina" ELSE "bootstrap",
                  ![h].pagina = 0,
                  ![h].enviado = Nada]
    /\ UNCHANGED <<viewstate, secuencial, gemini, consulta>>

(* the bootstrap GET of thread h returns and _obtener_viewstate assigns   *)
(* self.viewstate *)
HiloObtenerViewstate(h) ==
    /\ hilos[h].pc = "bootstrap"
    /\ \E b \in ResultadosBootstrap(TokensHilos) : viewstate' = b.viewstate
    /\ hilos' = [hilos EXCEPT ![h].pc = "pagina"]
    /\ UNCHANGED <<secuencial, gemini, consulta>>

(* one page request of thread h: it carries the token the client holds    *)
(* now; the pagination goes on, ends, or the request fails *)
HiloPeticionPagina(h) ==
    /\ hilos[h].pc = "pagina"
    /\ SigueElBucle(hilos[h].pagina)
    /\ \E fin \in {"sigue", "termina", "falla"} :
        hilos' = [hilos EXCEPT ![h] =
            IF fin = "sigue" /\ SigueElBucle(hilos[h].pagina + 1)
            THEN [@ EXCEPT !.pagina = @ + 1,
                           !.enviado = Algo(CampoViewState(viewstate))]
            ELSE IF fin = "falla" /\ ~EsUltimoIntento(hilos[h].intento, MAX_REINTENTOS)
            THEN [@ EXCEPT !.pc = "intento",
                           !.intento = SiguienteIntento(@),
                           !.enviado = Algo(CampoViewState(viewstate))]
            ELSE HiloLibre]
    /\ UNCHANGED <<viewstate, secuencial, gemini, consulta>>

NextHilos ==
    \E h \in Hilos :
        \/ api_buscar_impi(h)
        \/ HiloIniciarIntento(h)
        \/ HiloObtenerViewstate(h)
        \/ HiloPeticionPagina(h)

SpecHilos == Init /\ [][NextHilos]_vars

TypeOK ==
    /\ pc \in {"inactivo", "intento", "pagina"}
    /\ pagina \in 0..max_paginas
    /\ intento \in 0..TopeContador
    /\ intentos \in 0..TopeContador

----------------------------------------------------------------------------
(* The viability analyser (AnalizadorViabilidadGemini) of                 *)
(* analizador_viabilidad_gemini.py: _parsear_respuesta_gemini, with       *)
(* _reparar_json_incompleto and _analisis_fallback.  A text is a sequence *)
(* whose elements are single characters (punctuation, digits, blanks) or  *)
(* whole runs of letters. *)

VIABILIDAD_MIN == 0     \* ConfigGemini.VIABILIDAD_MIN
VIABILIDAD_MAX == 85    \* ConfigGemini.VIABILIDAD_MAX

(* Python values read from JSON, by type *)
JInt(n) == [t |-> "int", v |-> n]
JFloat(negativo, entero) == [t |-> "float", v |-> <<negativo, entero>>]
JNoFinito(nombre) == [t |-> "float_no_finito", v |-> nombre]
JStr(x) == [t |-> "str", v |-> x]
JList(xs) == [t |-> "list", v |-> xs]
JDict(ps) == [t |-> "dict", v |-> ps]
JBool(b) == [t |-> "bool", v |-> b]
JNone == [t |-> "None", v |-> <<>>]

(* json.loads: the decoder of the standard library, strict mode *)
BlancosJson == {" ", "\t", "\n", "\r"}
ControlJson == {"\t", "\n", "\r"}
Comilla == "\""

Leido(v, i) == [ok |-> TRUE, v |-> v, i |-> i]
NoLeido == [ok |-> FALSE]

RECURSIVE SaltarBlancos(_, _)
SaltarBlancos(t, i) ==
    IF i <= Len(t) /\ t[i] \in BlancosJson THEN SaltarBlancos(t, i + 1) ELSE i

RECURSIVE FinDigitos(_, _)
FinDigitos(t, i) ==
    IF i <= Len(t) /\ t[i] \in Digitos THEN FinDigitos(t, i + 1) ELSE i

(* the position of the quote that closes the string whose content starts *)
(* at i, 0 when the string is not closed or holds a control character    *)
RECURSIVE FinCadena(_, _)
FinCadena(t, i) ==
    IF i > Len(t) THEN 0
    ELSE IF t[i] = Comilla THEN i
    ELSE IF t[i] \in ControlJson THEN 0
    ELSE FinCadena(t, i + 1)

(* a number at j: an optional minus, then 0 or digits without leading   *)
(* zero, then an optional point with digits; or -Infinity *)
ParseNumero(t, j) ==
    LET negativo == t[j] = "-"
        k == IF negativo THEN j + 1 ELSE j
    IN  IF k > Len(t) THEN NoLeido
        ELSE IF t[k] \notin Digitos
        THEN IF negativo /\ t[k] = "Infinity"
             THEN Leido(JNoFinito("-Infinity"), k + 1)
             ELSE NoLeido
        ELSE LET fin == IF t[k] = "0" THEN k + 1 ELSE FinDigitos(t, k)
                 entero == ValorDigitos(SubSeq(t, k, fin - 1))
             IN  IF fin + 1 <= Len(t) /\ t[fin] = "." /\ t[fin + 1] \in Digitos
                 THEN Leido(JFloat(negativo, entero), FinDigitos(t, fin + 1))
                 ELSE Leido(JInt(IF negativo THEN 0 - entero ELSE entero), fin)

RECURSIVE ParseValor(_, _)
RECURSIVE ParseMiembros(_, _, _)
RECURSIVE ParseElementos(_, _, _)

(* the members of an object from i on, after "{" or "," *)
ParseMiembros(t, i, ps) ==
    LET j == SaltarBlancos(t, i)
    IN  IF j > Len(t) \/ t[j] # Comilla THEN NoLeido
        ELSE LET k == FinCadena(t, j + 1)
             IN  IF k = 0 THEN NoLeido
                 ELSE LET c == SaltarBlancos(t, k + 1)
                      IN  IF c > Len(t) \/ t[c] # ":" THEN NoLeido
                          ELSE \* value, then "," or "}"
                            LET r == ParseValor(t, c + 1)
                            IN  IF ~r.ok THEN NoLeido
                                ELSE LET d == SaltarBlancos(t, r.i)
                                         qs == Append(ps, <<SubSeq(t, j + 1, k - 1), r.v>>)
                                     IN  IF d > Len(t) THEN NoLeido
                                         ELSE IF t[d] = "," THEN ParseMiembros(t, d + 1, qs)
                                         ELSE IF t[d] = "}" THEN Leido(JDict(qs), d + 1)
                                         ELSE NoLeido

(* the elements of an array from i on, after "[" or "," *)
ParseElementos(t, i, xs) ==
    LET r == ParseValor(t, i)
    IN  IF ~r.ok THEN NoLeido
        ELSE LET d == SaltarBlancos(t, r.i)
                 ys == Append(xs, r.v)
             IN  IF d > Len(t) THEN NoLeido
                 ELSE IF t[d] = "," THEN ParseElementos(t, d + 1, ys)
                 ELSE IF t[d] = "]" THEN Leido(JList(ys), d + 1)
                 ELSE NoLeido

ParseValor(t, i) ==
    LET j == SaltarBlancos(t, i)
    IN  IF j > Len(t) THEN NoLeido
        ELSE IF t[j] = "{"
        THEN LET k == SaltarBlancos(t, j + 1)
             IN  IF k <= Len(t) /\ t[k] = "}" THEN Leido(JDict(<<>>), k + 1)
                 ELSE ParseMiembros(t, j + 1, <<>>)
        ELSE IF t[j] = "["
        THEN LET k == SaltarBlancos(t, j + 1)
             IN  IF k <= Len(t) /\ t[k] = "]" THEN Leido(JList(<<>>), k + 1)
                 ELSE ParseElementos(t, j + 1, <<>>)
        ELSE IF t[j] = Comilla
        THEN LET k == FinCadena(t, j + 1)
             IN  IF k = 0 THEN NoLeido
                 ELSE Leido(JStr(SubSeq(t, j + 1, k - 1)), k + 1)
        ELSE IF t[j] = "-" \/ t[j] \in Digitos THEN ParseNumero(t, j)
        ELSE IF t[j] = "true" THEN Leido(JBool(TRUE), j + 1)
        ELSE IF t[j] = "false" THEN Leido(JBool(FALSE), j + 1)
        ELSE IF t[j] = "null" THEN Leido(JNone, j + 1)
        ELSE IF t[j] \in {"NaN", "Infinity"} THEN Leido(JNoFinito(t[j]), j + 1)
        ELSE NoLeido

(* json.loads(t): Algo(value), or Nada for JSONDecodeError (no value, or *)
(* data after the value) *)
json_loads(t) ==
    LET r == ParseValor(t, 1)
    IN  IF r.ok /\ SaltarBlancos(t, r.i) > Len(t) THEN Algo(r.v) ELSE Nada

(* str.count, str.startswith, str.endswith *)
count(t, c) == Cardinality({i \in 1..Len(t) : t[i] = c})
startswith(t, p) == Len(t) >= Len(p) /\ SubSeq(t, 1, Len(p)) = p
endswith(t, p) == Len(t) >= Len(p) /\ SubSeq(t, Len(t) - Len(p) + 1, Len(t)) = p

(* the grave accent character, which a TLA+ string cannot hold, and the *)
(* three of them that make a markdown fence *)
AcentoGrave == "U+0060"
Cerca == <<AcentoGrave, AcentoGrave, AcentoGrave>>

(* c repeated n times, nothing for n <= 0: "for _ in range(n)" *)
Repetir(c, n) == IF n > 0 THEN [i \in 1..n |-> c] ELSE <<>>

(* dict.get(clave, defecto) on the members of an object: the last member *)
(* with the key wins *)
RECURSIVE get(_, _, _)
get(ps, clave, defecto) ==
    IF ps = <<>> THEN defecto
    ELSE IF ps[Len(ps)][1] = clave THEN ps[Len(ps)][2]
    ELSE get(SubSeq(ps, 1, Len(ps) - 1), clave, defecto)

(* int(v): Nada when it raises (TypeError, ValueError, OverflowError) *)
EnteroDe(v) ==
    CASE v.t = "int" -> Algo(v.v)
      [] v.t = "float" -> Algo(IF v.v[1] THEN 0 - v.v[2] ELSE v.v[2])
      [] v.t = "bool" -> Algo(IF v.v THEN 1 ELSE 0)
      [] v.t = "str" -> ParseInt(v.v)
      [] OTHER -> Nada

(* the dictionary returned when the repaired text does not parse either *)
CamposPorDefecto ==
    JDict(<< <<<<"porcentaje_viabilidad">>, JInt(25)>>,
             <<<<"nivel_riesgo">>, JStr(<<"ALTO">>)>>,
             <<<<"top_15_conflictivas">>, JList(<<>>)>>,
             <<<<"analisis_detallado">>,
               JStr(<<"Análisis incompleto debido a respuesta malformada de Gemini">>)>>,
             <<<<"recomendaciones">>,
               JList(<<JStr(<<"Realizar análisis manual">>)>>)>>,
             <<<<"factores_riesgo">>, JList(<<JStr(<<"JSON incompleto">>)>>)>>,
             <<<<"factores_favorables">>, JList(<<>>)>> >>)

Reparado_sin_comilla(texto) ==
    texto
        \o Repetir("]", count(texto, "[") - count(texto, "]"))
        \o Repetir("}", count(texto, "{") - count(texto, "}"))

(* the text with the missing closers appended *)
Reparado(texto) ==
    texto
        \o (IF count(texto, Comilla) % 2 # 0 THEN <<Comilla>> ELSE <<>>)
        \o Repetir("]", count(texto, "[") - count(texto, "]"))
        \o Repetir("}", count(texto, "{") - count(texto, "}"))

_reparar_json_incompleto_sin_defecto(texto) ==
    LET data == json_loads(Reparado(texto))
    IN  IF data # Nada THEN Valor(data) ELSE JNone

(* _reparar_json_incompleto: the value of the repaired text, or the      *)
(* default dictionary *)
_reparar_json_incompleto(texto) ==
    LET data == json_loads(Reparado(texto))
    IN  IF data # Nada THEN Valor(data) ELSE CamposPorDefecto

AnalisisViabilidad(rb, porcentaje, nivel, conflictivas, detallado, recs, riesgo, favorables) ==
    [marca_consultada |-> rb.marca_consultada,
     clase_consultada |-> rb.clase_consultada,
     porcentaje_viabilidad |-> porcentaje,
     nivel_riesgo |-> nivel,
     marcas_conflictivas |-> conflictivas,
     analisis_detallado |-> detallado,
     recomendaciones |-> recs,
     factores_riesgo |-> riesgo,
     factores_favorables |-> favorables]

_analisis_fallback_umbral(resultado_busqueda, respuesta_texto) ==
    LET total == resultado_busqueda.total_registros
    IN  AnalisisViabilidad(resultado_busqueda,
            IF total = 0 THEN 75 ELSE IF total < 3 THEN 60
            ELSE IF total <= 10 THEN 40 ELSE 25,
            JStr(<<IF total = 0 THEN "BAJO" ELSE IF total < 3 THEN "MEDIO"
                   ELSE IF total <= 10 THEN "ALTO" ELSE "MUY_ALTO">>),
            JList(<<>>), JStr(respuesta_texto), JList(<<>>), JList(<<>>),
            JList(<<>>))

(* _analisis_fallback: the analysis by the number of similar marks *)
_analisis_fallback(resultado_busqueda, respuesta_texto) ==
    LET total == resultado_busqueda.total_registros
        porcentaje == IF total = 0 THEN 75
                      ELSE IF total <= 3 THEN 60
                      ELSE IF total <= 10 THEN 40
                      ELSE 25
        nivel == IF total = 0 THEN "BAJO"
                 ELSE IF total <= 3 THEN "MEDIO"
                 ELSE IF total <= 10 THEN "ALTO"
                 ELSE "MUY_ALTO"
    IN  AnalisisViabilidad(resultado_busqueda, porcentaje, JStr(<<nivel>>),
            JList(<<>>),
            JStr(IF respuesta_texto # <<>> THEN respuesta_texto
                 ELSE <<"Análisis automático basado en cantidad de marcas similares.">>),
            JList(<< JStr(<<"Revisar manualmente las marcas similares encontradas">>),
                     JStr(<<"Considerar modificar la denominación si hay conflictos">>),
                     JStr(<<"Consultar con un experto en propiedad intelectual">>) >>),
            JList(<<JStr(<<"Se encontraron ", Texto(total), " marcas similares">>)>>),
            IF total > 0 THEN JList(<<>>)
            ELSE JList(<<JStr(<<"No se encontraron marcas similares">>)>>))

(* "if t.startswith(p): t = t[len(p):]" and "if t.endswith(p): t = t[:-len(p)]" *)
SinPrefijo(t, p) == IF startswith(t, p) THEN SubSeq(t, Len(p) + 1, Len(t)) ELSE t
SinSufijo(t, p) == IF endswith(t, p) THEN SubSeq(t, 1, Len(t) - Len(p)) ELSE t

(* the text without its markdown fence *)
Limpiar(respuesta_texto) ==
    Strip(SinSufijo(SinPrefijo(SinPrefijo(Strip(respuesta_texto),
                                          Cerca \o <<"json">>),
                               Cerca),
                    Cerca))

Acotar_sin_maximo(porcentaje) ==
    IF porcentaje > VIABILIDAD_MIN THEN porcentaje ELSE VIABILIDAD_MIN

(* max(VIABILIDAD_MIN, min(porcentaje, VIABILIDAD_MAX)) *)
Acotar(porcentaje) ==
    LET menor == IF porcentaje < VIABILIDAD_MAX THEN porcentaje
                 ELSE VIABILIDAD_MAX
    IN  IF menor > VIABILIDAD_MIN THEN menor ELSE VIABILIDAD_MIN

(* the outcome of a block: a value, or an exception raised *)
Devuelve(a) == [lanzada |-> Nada, valor |-> Algo(a)]
Lanza(e) == [lanzada |-> Algo(e), valor |-> Nada]

(* json.loads(texto), and the repair when it raises JSONDecodeError *)
Cargar(texto) ==
    LET directo == json_loads(texto)
    IN  IF directo # Nada THEN Valor(directo)
        ELSE _reparar_json_incompleto(texto)

(* the analysis built from the fields of data, valor being               *)
(* data.get('porcentaje_viabilidad', 50): int(valor) raises, or the      *)
(* clamped score and the other fields with their defaults                *)
Construir(data, valor, resultado_busqueda) ==
    LET porcentaje == EnteroDe(valor)
    IN  IF porcentaje = Nada
        THEN Lanza(IF valor.t = "str" THEN "ValueError"
                   ELSE IF valor.t = "float_no_finito"
                        THEN (IF valor.v = "NaN" THEN "ValueError"
                              ELSE "OverflowError")
                   ELSE "TypeError")
        ELSE Devuelve(AnalisisViabilidad(resultado_busqueda,
               Acotar(Valor(porcentaje)),
               get(data.v, <<"nivel_riesgo">>, JStr(<<"MEDIO">>)),
               get(data.v, <<"top_15_conflictivas">>,
                   get(data.v, <<"marcas_conflictivas">>, JList(<<>>))),
               get(data.v, <<"analisis_detallado">>, JStr(<<>>)),
               get(data.v, <<"recomendaciones">>, JList(<<>>)),
               get(data.v, <<"factores_riesgo">>, JList(<<>>)),
               get(data.v, <<"factores_favorables">>, JList(<<>>))))

DesdeData_otro_defecto(data, resultado_busqueda) ==
    IF data.t # "dict" THEN Lanza("AttributeError")
    ELSE Construir(data, get(data.v, <<"porcentaje_viabilidad">>, JInt(25)),
                   resultado_busqueda)

(* the lines of the try after data is loaded: data.get on a value that   *)
(* is not a dict raises AttributeError *)
DesdeData(data, resultado_busqueda) ==
    IF data.t # "dict" THEN Lanza("AttributeError")
    ELSE Construir(data, get(data.v, <<"porcentaje_viabilidad">>, JInt(50)),
                   resultado_busqueda)

(* the body of the try of _parsear_respuesta_gemini *)
CuerpoDelTry(respuesta_texto, resultado_busqueda) ==
    DesdeData(Cargar(Limpiar(respuesta_texto)), resultado_busqueda)

(* the exceptions that "except Exception" catches *)
EsException(e) ==
    e \in {"AttributeError", "TypeError", "ValueError", "OverflowError",
           "JSONDecodeError"}

(* the except clauses on the outcome r of the try: JSONDecodeError, then *)
(* Exception, both returning the fallback analysis *)
Capturar(r, respuesta_texto, resultado_busqueda) ==
    IF r.lanzada = Nada THEN r
    ELSE IF Valor(r.lanzada) = "JSONDecodeError"
    THEN Devuelve(_analisis_fallback(resultado_busqueda, respuesta_texto))
    ELSE IF EsException(Valor(r.lanzada))
    THEN Devuelve(_analisis_fallback(resultado_busqueda, respuesta_texto))
    ELSE r

(* _parsear_respuesta_gemini: the try body, and the fallback analysis    *)
(* when it raises *)
_parsear_respuesta_gemini(respuesta_texto, resultado_busqueda) ==
    Capturar(CuerpoDelTry(respuesta_texto, resultado_busqueda),
             respuesta_texto, resultado_busqueda)

----------------------------------------------------------------------------
(* The texts the analysis service returns *)

Clave(k) == <<Comilla, k, Comilla>>
Miembro(k, v) == Clave(k) \o <<":", " ">> \o v

RECURSIVE Unir(_)
Unir(miembros) ==
    IF miembros = <<>> THEN <<>>
    ELSE IF Len(miembros) = 1 THEN miembros[1]
    ELSE miembros[1] \o <<",", " ">> \o Unir(Tail(miembros))

Objeto(miembros) == <<"{">> \o Unir(miembros) \o <<"}">>

(* the values written for porcentaje_viabilidad, by name *)
Puntajes ==
    {"40", "200", "86", "85", "0", "-5", "40.7", "-0.5", "cadena 40",
     "cadena 200", "cadena alto", "cadena 40.7", "null", "true", "lista",
     "NaN", "Infinity", "-Infinity", "ausente"}

TextoPuntaje(n) ==
    CASE n = "40" -> <<"4", "0">>
      [] n = "200" -> <<"2", "0", "0">>
      [] n = "86" -> <<"8", "6">>
      [] n = "85" -> <<"8", "5">>
      [] n = "0" -> <<"0">>
      [] n = "-5" -> <<"-", "5">>
      [] n = "40.7" -> <<"4", "0", ".", "7">>
      [] n = "-0.5" -> <<"-", "0", ".", "5">>
      [] n = "cadena 40" -> <<Comilla, " ", "4", "0", Comilla>>
      [] n = "cadena 200" -> <<Comilla, "2", "0", "0", Comilla>>
      [] n = "cadena alto" -> <<Comilla, "alto", Comilla>>
      [] n = "cadena 40.7" -> <<Comilla, "4", "0", ".", "7", Comilla>>
      [] n = "null" -> <<"null">>
      [] n = "true" -> <<"true">>
      [] n = "lista" -> <<"[", "4", "0", "]">>
      [] n = "NaN" -> <<"NaN">>
      [] n = "Infinity" -> <<"Infinity">>
      [] n = "-Infinity" -> <<"-", "Infinity">>

(* the values written for nivel_riesgo, by name *)
Riesgos == {"BAJO", "ALTO", "null", "ausente"}

TextoRiesgo(n) == IF n = "null" THEN <<"null">> ELSE <<Comilla, n, Comilla>>

(* the other five members of a complete payload *)
RestoDeMiembros ==
    << Miembro("top_15_conflictivas",
               <<"[">> \o Objeto(<< Miembro("denominacion", <<Comilla, "NIKE", Comilla>>),
                                    Miembro("clase", <<"2", "5">>) >>) \o <<"]">>),
       Miembro("analisis_detallado",
               <<Comilla, "La", " ", "marca", " ", "es", " ", "similar", Comilla>>),
       Miembro("recomendaciones",
               <<"[", Comilla, "Modificar", Comilla, ",", " ",
                      Comilla, "Consultar", Comilla, "]">>),
       Miembro("factores_riesgo", <<"[", Comilla, "Fonética", Comilla, "]">>),
       Miembro("factores_favorables", <<"[", "]">>) >>

(* the object with the given score and risk level, and the other members *)
(* when resto *)
Carga(puntaje, riesgo, resto) ==
    Objeto((IF puntaje = "ausente" THEN <<>>
            ELSE <<Miembro("porcentaje_viabilidad", TextoPuntaje(puntaje))>>)
           \o (IF riesgo = "ausente" THEN <<>>
               ELSE <<Miembro("nivel_riesgo", TextoRiesgo(riesgo))>>)
           \o (IF resto THEN RestoDeMiembros ELSE <<>>))

(* markdown fences around a text *)
Cercas == {"ninguna", "json", "simple", "abierta"}

Cercar(t, cerca) ==
    CASE cerca = "ninguna" -> t
      [] cerca = "json" -> Cerca \o <<"json", "\n">> \o t \o <<"\n">> \o Cerca
      [] cerca = "simple" -> Cerca \o <<"\n">> \o t \o <<"\n">> \o Cerca \o <<"\n">>
      [] cerca = "abierta" -> <<" ">> \o Cerca \o <<"json", "\n">> \o t

(* the complete payload whose tail the service cuts off *)
CargaCompleta == Carga("40", "ALTO", TRUE)

(* texts that are not an object of the expected keys, by name *)
OtrosTextos ==
    {"vacio", "blancos", "prosa", "lista", "numero", "cadena", "null",
     "llave en cadena", "llave en cadena cortada", "coma final",
     "datos extra", "cierre de mas", "clave repetida", "listas null",
     "salto en cadena", "solo cerca", "clave antigua", "dos claves",
     "lista cortada", "puntaje cortado"}

OtroTexto(n) ==
    CASE n = "vacio" -> <<>>
      [] n = "blancos" -> <<" ", "\n">>
      [] n = "prosa" -> <<"Lo", " ", "siento">>
      [] n = "lista" -> <<"[", "4", "0", "]">>
      [] n = "numero" -> <<"4", "0">>
      [] n = "cadena" -> <<Comilla, "ALTO", Comilla>>
      [] n = "null" -> <<"null">>
      [] n = "llave en cadena" ->
            Objeto(<<Miembro("analisis_detallado", <<Comilla, "a", "{", "b", Comilla>>)>>)
      [] n = "llave en cadena cortada" ->
            <<"{">> \o Miembro("analisis_detallado", <<Comilla, "a", "{", "b">>)
      [] n = "coma final" ->
            <<"{">> \o Miembro("porcentaje_viabilidad", <<"4", "0">>) \o <<",", "}">>
      [] n = "datos extra" -> Carga("40", "BAJO", FALSE) \o <<" ", "fin">>
      [] n = "cierre de mas" -> Carga("40", "BAJO", FALSE) \o <<"}">>
      [] n = "clave repetida" ->
            Objeto(<< Miembro("porcentaje_viabilidad", <<"4", "0">>),
                      Miembro("porcentaje_viabilidad", <<"9", "0">>) >>)
      [] n = "listas null" ->
            Objeto(<< Miembro("porcentaje_viabilidad", <<"4", "0">>),
                      Miembro("recomendaciones", <<"null">>),
                      Miembro("analisis_detallado", <<"null">>) >>)
      [] n = "salto en cadena" ->
            Objeto(<<Miembro("nivel_riesgo", <<Comilla, "AL", "\n", "TO", Comilla>>)>>)
      [] n = "solo cerca" -> Cerca \o <<"json">>
      [] n = "clave antigua" ->
            Objeto(<<Miembro("marcas_conflictivas",
                             <<"[", Comilla, "NIKE", Comilla, "]">>)>>)
      [] n = "lista cortada" -> <<"[", Comilla, "a", Comilla, ",", " ", Comilla, "b">>
      [] n = "puntaje cortado" ->
            <<"{">> \o Clave("porcentaje_viabilidad") \o <<":", " ", Comilla, "al">>
      [] n = "dos claves" ->
            Objeto(<< Miembro("marcas_conflictivas",
                              <<"[", Comilla, "NIKE", Comilla, "]">>),
                      Miembro("top_15_conflictivas", <<"[", "]">>) >>)

(* what a text is built from: a whole object, the complete payload cut   *)
(* after corte elements, or another text *)
Entrada(clase, puntaje, riesgo, cerca, resto, corte, nombre) ==
    [clase |-> clase, puntaje |-> puntaje, riesgo |-> riesgo, cerca |-> cerca,
     resto |-> resto, corte |-> corte, nombre |-> nombre]

Entradas ==
    {Entrada("objeto", p, r, c, resto, 0, "") :
        p \in Puntajes, r \in Riesgos, c \in Cercas, resto \in BOOLEAN}
    \cup {Entrada("cortado", "40", "ALTO", c, TRUE, n, "") :
        c \in {"ninguna", "abierta"}, n \in 1..(Len(CargaCompleta) - 1)}
    \cup {Entrada("otro", "", "", "ninguna", FALSE, 0, n) : n \in OtrosTextos}

TextoDeEntrada(e) ==
    CASE e.clase = "objeto" -> Cercar(Carga(e.puntaje, e.riesgo, e.resto), e.cerca)
      [] e.clase = "cortado" -> Cercar(SubSeq(CargaCompleta, 1, e.corte), e.cerca)
      [] e.clase = "otro" -> OtroTexto(e.nombre)

(* the searches whose result is analysed *)
Totales == 0..MaxTotal

(* analizar_viabilidad hands the text of the service and the result of   *)
(* the search to _parsear_respuesta_gemini *)
InitGemini ==
    /\ viewstate = Nada
    /\ pc = "inactivo"
    /\ marca = MarcaValida
    /\ clase_niza = Nada
    /\ max_reintentos = Nada
    /\ reintentos = 0
    /\ intento = 0
    /\ pagina = 0
    /\ todas_marcas = <<>>
    /\ total_registros = 0
    /\ \E total \in Totales :
        resultado = Algo(ResultadoExitoso(MarcaValida, Nada, <<>>, total))
    /\ peticiones = <<>>
    /\ intentos = 0
    /\ bootstraps = 0
    /\ esperas = 0
    /\ cuentas = <<>>
    /\ vistos = FALSE
    /\ ultima = [tipo |-> "inicio"]
    /\ hilos = [h \in Hilos |-> HiloLibre]
    /\ \E e \in Entradas :
        /\ entrada = e
        /\ response_text = TextoDeEntrada(e)
    /\ analisis = <<>>
    /\ consulta = ConsultaLibre

Parsear_con_memoria ==
    /\ Len(analisis) < MaxLlamadas
    /\ analisis' = Append(analisis,
                          _parsear_respuesta_gemini(response_text,
                              [Valor(resultado) EXCEPT
                                  !.total_registros = @ + Len(analisis)]))
    /\ UNCHANGED <<viewstate, secuencial, hilos, entrada, response_text,
                   consulta>>

(* one call of _parsear_respuesta_gemini on the text *)
Parsear ==
    /\ Len(analisis) < MaxLlamadas
    /\ analisis' = Append(analisis,
                          _parsear_respuesta_gemini(response_text, Valor(resultado)))
    /\ UNCHANGED <<viewstate, secuencial, hilos, entrada, response_text,
                   consulta>>

NextGemini == Parsear

SpecGemini == InitGemini /\ [][NextGemini]_vars

----------------------------------------------------------------------------
(* The search by denomination: buscar_impi_denominacion of                *)
(* impi_denominacion.py.  A response text is a sequence whose elements    *)
(* are single characters or whole markers (an identifier, a class name, a *)
(* phrase).  The registry is the environment: each of the two requests    *)
(* raises an exception or returns a status code and a document. *)

Minuscula(c) ==
    CASE c = "L" -> "l"
      [] c = "U" -> "u"
      [] c = "Total de registros" -> "total de registros"
      [] c = "Registro de Marca" -> "registro de marca"
      [] c = "NOMINATIVA" -> "nominativa"
      [] c = "Mixta" -> "mixta"
      [] c = "frmBsqDen:resultadoExpediente_data" ->
            "frmbsqden:resultadoexpediente_data"
      [] OTHER -> c

(* str.lower() *)
Lower(s) == [i \in 1..Len(s) |-> Minuscula(s[i])]

(* the operator "in" of two strings *)
Contiene(t, s) ==
    \E i \in 0..(Len(t) - Len(s)) : SubSeq(t, i + 1, i + Len(s)) = s

(* re.sub(r'\s+', ' ', s) *)
RECURSIVE UnEspacio(_)
UnEspacio(s) ==
    IF s = <<>> THEN <<>>
    ELSE IF Head(s) \in Espacios THEN <<" ">> \o UnEspacio(LStrip(s))
    ELSE <<Head(s)>> \o UnEspacio(Tail(s))

normalizar_marca(m) == UnEspacio(Strip(m))

RECURSIVE SaltarEspacios(_, _)
SaltarEspacios(t, i) ==
    IF i <= Len(t) /\ t[i] \in Espacios THEN SaltarEspacios(t, i + 1) ELSE i

(* where the digits are looked for by a match that starts at element i *)
TrasElIgual(t, i) == SaltarEspacios(t, SaltarEspacios(t, i + 1) + 1)

(* the pattern total de registros\s*=\s*(\d+) matches at element i *)
CoincideTotal(t, i) ==
    /\ t[i] = "total de registros"
    /\ SaltarEspacios(t, i + 1) <= Len(t)
    /\ t[SaltarEspacios(t, i + 1)] = "="
    /\ TrasElIgual(t, i) <= Len(t)
    /\ t[TrasElIgual(t, i)] \in Digitos

(* group(1) of the match that starts at element i: the run of digits *)
GrupoTotal(t, i) ==
    SubSeq(t, TrasElIgual(t, i), FinDigitos(t, TrasElIgual(t, i)) - 1)

(* re.search: group(1) of the leftmost match, Nada when there is none *)
match_total(texto_lower) ==
    IF \E i \in 1..Len(texto_lower) : CoincideTotal(texto_lower, i)
    THEN Algo(GrupoTotal(texto_lower,
                  CHOOSE i \in 1..Len(texto_lower) :
                      /\ CoincideTotal(texto_lower, i)
                      /\ \A j \in 1..(i - 1) : ~CoincideTotal(texto_lower, j)))
    ELSE Nada

EsClaseDeFila(e) == e \in {"ui-datatable-even", "ui-datatable-odd"}

(* re.findall(r'ui-datatable-(even|odd)', respuesta_texto) *)
filas(respuesta_texto) == SelectSeq(respuesta_texto, EsClaseDeFila)

(* sum(1 for i in indicadores if i in texto_lower) *)
CuentaIndicadores(texto_lower) ==
    Cardinality({i \in {"registro de marca", "nominativa", "mixta"} :
                    Contiene(texto_lower, <<i>>)})

(* the filler of a large response: more characters than RESPUESTA_GRANDE; *)
(* every other element is a character or a marker of a few characters     *)
LargoElemento(e) == IF e = "relleno" THEN RESPUESTA_GRANDE + 1 ELSE 1

(* len(respuesta_texto), counting a marker as one character *)
RECURSIVE len(_)
len(t) == IF t = <<>> THEN 0 ELSE LargoElemento(Head(t)) + len(Tail(t))

AnalizarTexto_vacio_primero(respuesta_texto, texto_lower, marca_buscar) ==
    IF Contiene(respuesta_texto, <<"ui-datatable-empty-message">>)
    THEN "POSIBLEMENTE_DISPONIBLE"
    ELSE IF /\ match_total(texto_lower) # Nada
            /\ ValorDigitos(Valor(match_total(texto_lower))) > 0
    THEN "REQUIERE_ANALISIS"
    ELSE IF /\ Contiene(respuesta_texto, <<"frmBsqDen:resultadoExpediente_data">>)
            /\ filas(respuesta_texto) # <<>>
    THEN "REQUIERE_ANALISIS"
    ELSE IF /\ CuentaIndicadores(texto_lower) >= 2
            /\ Contiene(texto_lower, Lower(marca_buscar))
    THEN "REQUIERE_ANALISIS"
    ELSE "REQUIERE_ANALISIS"

(* PASO 3: the tests made on the text of the response, in order *)
AnalizarTexto(respuesta_texto, texto_lower, marca_buscar) ==
    IF /\ match_total(texto_lower) # Nada
       /\ ValorDigitos(Valor(match_total(texto_lower))) > 0
    THEN "REQUIERE_ANALISIS"
    ELSE IF /\ Contiene(respuesta_texto, <<"frmBsqDen:resultadoExpediente_data">>)
            /\ filas(respuesta_texto) # <<>>
    THEN "REQUIERE_ANALISIS"
    ELSE IF /\ CuentaIndicadores(texto_lower) >= 2
            /\ Contiene(texto_lower, Lower(marca_buscar))
    THEN "REQUIERE_ANALISIS"
    ELSE IF Contiene(respuesta_texto, <<"ui-datatable-empty-message">>)
    THEN "POSIBLEMENTE_DISPONIBLE"
    ELSE IF len(respuesta_texto) > RESPUESTA_GRANDE
    THEN "REQUIERE_ANALISIS"
    ELSE "REQUIERE_ANALISIS"

AnalizarRespuesta(respuesta_texto, marca_buscar) ==
    AnalizarTexto(respuesta_texto, Lower(respuesta_texto), marca_buscar)

(* the terms looked up *)
MarcasDenominacion ==
    {<<"L", "U">>, <<"l", " ", "\t", "u">>, <<" ", "L", "u", "\n">>}

(* the outcomes of the first request: an exception, or a status and what *)
(* the document holds for the ViewState input: no input, an input       *)
(* without value attribute, an empty value, a token *)
RespuestasIniciales ==
    {[excepcion |-> Algo(e)] : e \in Excepciones}
        \cup {[excepcion |-> Nada, status_code |-> c, viewstate_input |-> v] :
                c \in {STATUS_OK, 404, 500},
                v \in {Nada, Algo([value |-> Nada]), Algo([value |-> Algo("")]),
                       Algo([value |-> Algo("vs1")])}}

(* what the registry puts in the text of the search response: a reported  *)
(* total, the result table, indicator words, the term, the empty-result   *)
(* message, a large filler *)
CuerposDenominacion ==
    [total : {"sin", "cero", "tres", "diez"},
     tabla : {"sin", "solo_id", "filas", "filas_sin_id"},
     claves : 0..3,
     termino : {"sin", "igual", "minusculas"},
     vacio : BOOLEAN,
     grande : BOOLEAN]

ParteTotal(c) ==
    CASE c.total = "sin" -> <<>>
      [] c.total = "cero" -> <<"Total de registros", " ", "=", " ", "0">>
      [] c.total = "tres" -> <<"Total de registros", "=", "3">>
      [] c.total = "diez" -> <<"total de registros", " ", "=", "1", "0">>

ParteTabla(c) ==
    CASE c.tabla = "sin" -> <<>>
      [] c.tabla = "solo_id" -> <<"frmBsqDen:resultadoExpediente_data">>
      [] c.tabla = "filas" ->
            <<"frmBsqDen:resultadoExpediente_data", "ui-datatable-even",
              "ui-datatable-odd">>
      [] c.tabla = "filas_sin_id" -> <<"x", "ui-datatable-even">>

(* the text of the response described by c to a search of marca_buscar *)
TextoDenominacion(c, marca_buscar) ==
    <<"<">> \o ParteTotal(c) \o <<"x">> \o ParteTabla(c) \o <<"x">>
        \o SubSeq(<<"Registro de Marca", "NOMINATIVA", "Mixta">>, 1, c.claves)
        \o (CASE c.termino = "sin" -> <<>>
              [] c.termino = "igual" -> <<"<">> \o marca_buscar \o <<">">>
              [] c.termino = "minusculas" ->
                    <<"<">> \o Lower(marca_buscar) \o <<">">>)
        \o (IF c.vacio THEN <<"ui-datatable-empty-message">> ELSE <<>>)
        \o (IF c.grande THEN <<"relleno">> ELSE <<>>)

RespuestasBusqueda ==
    {[excepcion |-> Algo(e)] : e \in Excepciones}
        \cup {[excepcion |-> Nada, status_code |-> c, cuerpo |-> Nada] :
                c \in {404, 500}}
        \cup {[excepcion |-> Nada, status_code |-> STATUS_OK, cuerpo |-> Algo(c)] :
                c \in CuerposDenominacion}

(* the except clauses of buscar_impi_denominacion: requests.Timeout,      *)
(* requests.ConnectionError and Exception all return ERROR_CONEXION *)
CapturarDenominacion(e) ==
    IF EsTimeout(e) THEN [retorno |-> Algo("ERROR_CONEXION"), lanzada |-> Nada]
    ELSE IF e = "ConnectionError"
    THEN [retorno |-> Algo("ERROR_CONEXION"), lanzada |-> Nada]
    ELSE [retorno |-> Algo("ERROR_CONEXION"), lanzada |-> Nada]

(* return s *)
DevolverEstado(s) == [retorno |-> Algo(s), lanzada |-> Nada]

(* the call ends: with the value returned or with the exception raised *)
TerminarConsulta(fin) ==
    [consulta EXCEPT !.pc = "libre",
                     !.retorno = fin.retorno,
                     !.lanzada = fin.lanzada]

(* the call: the session is created and the term is normalised *)
buscar_impi_denominacion(m) ==
    /\ consulta.pc = "libre"
    /\ consulta' = [ConsultaLibre EXCEPT !.pc = "get",
                                         !.marca = m,
                                         !.marca_buscar = normalizar_marca(m)]
    /\ UNCHANGED <<viewstate, secuencial, hilos, gemini>>

(* PASO 1: the GET of the base page and the ViewState input of its        *)
(* document *)
ObtenerViewStateInicial ==
    /\ consulta.pc = "get"
    /\ \E r \in RespuestasIniciales :
        consulta' =
            [(IF r.excepcion # Nada
              THEN TerminarConsulta(CapturarDenominacion(Valor(r.excepcion)))
              ELSE IF r.status_code # STATUS_OK
              THEN TerminarConsulta(DevolverEstado("ERROR_CONEXION"))
              ELSE IF r.viewstate_input = Nada
              THEN TerminarConsulta(DevolverEstado("ERROR_CONEXION"))
              ELSE [consulta EXCEPT
                        !.pc = "post",
                        !.viewstate =
                            IF Valor(r.viewstate_input).value # Nada
                            THEN Valor(r.viewstate_input).value
                            ELSE Algo("")])
             EXCEPT !.response_inicial = Algo(r)]
    /\ UNCHANGED <<viewstate, secuencial, hilos, gemini>>

(* PASO 2 and PASO 3: the POST of the search and the analysis of its text *)
BuscarPorDenominacion ==
    /\ consulta.pc = "post"
    /\ \E r \in RespuestasBusqueda :
        consulta' =
            [(IF r.excepcion # Nada
              THEN TerminarConsulta(CapturarDenominacion(Valor(r.excepcion)))
              ELSE IF r.status_code # STATUS_OK
              THEN TerminarConsulta(DevolverEstado("ERROR_CONEXION"))
              ELSE TerminarConsulta(DevolverEstado(
                       AnalizarRespuesta(
                           TextoDenominacion(Valor(r.cuerpo),
                                             consulta.marca_buscar),
                           consulta.marca_buscar))))
             EXCEPT !.response_busqueda = Algo(r)]
    /\ UNCHANGED <<viewstate, secuencial, hilos, gemini>>

NextDenominacion ==
    \/ \E m \in MarcasDenominacion : buscar_impi_denominacion(m)
    \/ ObtenerViewStateInicial
    \/ BuscarPorDenominacion

SpecDenominacion == Init /\ [][NextDenominacion]_vars

----------------------------------------------------------------------------
(* Properties of the phonetic search *)

HayResultado == pc = "inactivo" /\ resultado # Nada
R == Valor(resultado)

(* the page a request asks for, read from its form data *)
PaginaDePeticion(d) ==
    IF d.pagination = Nada THEN 0 ELSE Valor(d.pagination).first \div 15

(* the step taken is a page request that returned a body *)
PaginaRecibida == pc = "pagina" /\ ultima'.excepcion = Nada

(* the step taken is a page request that raised e *)
PaginaFallida(e) == pc = "pagina" /\ ultima'.excepcion = Algo(e)

(* C1: one pagination pass issues at most 20 page requests, for the pages *)
(* 0..19, whatever the registry reports and returns. *)
C1_A_lo_mas_20_paginas ==
    /\ Len(peticiones) <= 20
    /\ \A i \in 1..Len(peticiones) : PaginaDePeticion(peticiones[i]) \in 0..19

C1_Testigo ==
    /\ HayResultado
    /\ R.exito
    /\ Len(peticiones) = 20
    /\ Len(R.marcas_encontradas) = 300
    /\ R.total_registros > 300

(* C2: under fair scheduling every call that passed the input validation  *)
(* returns a result, whatever the registry answers, and no request is     *)
(* issued once the result is there. *)
C2_La_busqueda_termina ==
    /\ (pc # "inactivo") ~> HayResultado
    /\ [][HayResultado =>
            (peticiones' = peticiones \/ ultima'.tipo = "llamada")]_vars

C2_Testigo ==
    /\ HayResultado
    /\ ~R.exito
    /\ intentos = 3
    /\ Len(peticiones) = 20

(* C3: a result with exito=False has no records, total_registros 0 and a  *)
(* non-empty error, whatever the pages of the call had yielded; a result  *)
(* with exito=True has no error. *)
C3_Error_sin_registros ==
    resultado # Nada =>
        /\ ~R.exito =>
            /\ R.marcas_encontradas = <<>>
            /\ R.total_registros = 0
            /\ R.error # Nada
            /\ \E i \in 1..Len(Valor(R.error)) : Valor(R.error)[i] # ""
        /\ R.exito => R.error = Nada

C3_Testigo ==
    /\ HayResultado
    /\ ~R.exito
    /\ intentos = 2
    /\ vistos
    /\ cuentas = <<15, 15>>
    /\ Len(peticiones) = 3

(* C4: every record of a successful result has a denominacion, an         *)
(* expediente and a clase that reads as an integer in 1..45. *)
RegistroCompleto(m) ==
    /\ m.denominacion # <<>>
    /\ m.expediente # <<>>
    /\ ParseInt(m.clase) # Nada
    /\ Valor(ParseInt(m.clase)) \in 1..45

C4_Registros_validos ==
    (resultado # Nada /\ R.exito) =>
        \A i \in 1..Len(R.marcas_encontradas) :
            RegistroCompleto(R.marcas_encontradas[i])

(* C5: two searches in flight never use the same client, and within an    *)
(* attempt of a search the token it sends is the one it sent before: the  *)
(* token acquisition of another search does not change it. *)
EnVuelo(h) == hilos[h].pc # "libre"

C5_Sesion_no_compartida ==
    /\ \A h1, h2 \in Hilos :
        (h1 # h2 /\ EnVuelo(h1) /\ EnVuelo(h2)) =>
            hilos[h1].cliente # hilos[h2].cliente
    /\ \A h \in Hilos :
        (hilos[h].pc = "pagina" /\ hilos[h].enviado # Nada) =>
            CampoViewState(viewstate) = Valor(hilos[h].enviado)

(* the second half of C5 alone: the token one search sends is not changed *)
(* by the token acquisition of another *)
C5_Token_estable ==
    \A h \in Hilos :
        (hilos[h].pc = "pagina" /\ hilos[h].enviado # Nada) =>
            CampoViewState(viewstate) = Valor(hilos[h].enviado)

(* C6: a page with fewer than 15 records ends the pagination: the call    *)
(* returns at once, successfully, with the records accumulated before the *)
(* page followed by the records of the page; and while pages are still    *)
(* requested every earlier page of the attempt had 15 records or more.    *)
C6_Pagina_corta_termina ==
    /\ [][(PaginaRecibida /\ Len(ultima'.marcas) < 15) =>
            /\ pc' = "inactivo"
            /\ resultado' # Nada
            /\ Valor(resultado').exito
            /\ Valor(resultado').marcas_encontradas
                   = todas_marcas \o ultima'.marcas]_vars
    /\ [](pc = "pagina" => \A i \in 1..Len(cuentas) : cuentas[i] >= 15)

C6_Testigo ==
    /\ HayResultado
    /\ R.exito
    /\ cuentas = <<15, 15, 14>>
    /\ Len(R.marcas_encontradas) = 44

(* C7: every page received in an attempt appends its records, in order,   *)
(* to the records of the pages before it, and a page after the first that *)
(* yields no record ends the pagination with a successful result holding  *)
(* exactly the records accumulated from the pages before it. *)
C7_Pagina_vacia_conserva ==
    /\ [][(PaginaRecibida /\ pc' = "pagina") =>
            todas_marcas' = todas_marcas \o ultima'.marcas]_vars
    /\ [][(PaginaRecibida /\ pagina >= 1 /\ ultima'.marcas = <<>>) =>
            /\ pc' = "inactivo"
            /\ resultado' # Nada
            /\ Valor(resultado').exito
            /\ Valor(resultado').marcas_encontradas = todas_marcas
            /\ Len(todas_marcas) >= 15 * pagina]_vars
    /\ [](pc = "pagina" => Len(cuentas) = pagina)
    /\ []((HayResultado /\ R.exito /\ cuentas = <<15, 0>>) =>
            Len(R.marcas_encontradas) = 15)

C7_Testigo ==
    /\ HayResultado
    /\ R.exito
    /\ cuentas = <<15, 0>>
    /\ Len(R.marcas_encontradas) = 15
    /\ R.marcas_encontradas[15].expediente = <<"E", "1", "0", "15">>

(* C8: after a page of exactly 15 records, below page 19, the next page   *)
(* is requested when the body reports no count of further records or the *)
(* running count is below the reported total. *)
C8_Pagina_llena_continua ==
    [][(/\ PaginaRecibida
        /\ Len(ultima'.marcas) = 15
        /\ pagina < 19
        /\ \/ ultima'.reportado = Nada
           \/ Len(todas_marcas) + 15 < 15 + Valor(ultima'.reportado)) =>
            /\ pc' = "pagina"
            /\ pagina' = pagina + 1]_vars

(* C9: a call starts at most max_reintentos attempts, 3 by default, and   *)
(* an attempt after the first starts only after a failed page request.    *)
C9_Intentos_acotados ==
    /\ max_reintentos = Nada => intentos <= 3
    /\ (max_reintentos # Nada /\ Valor(max_reintentos) >= 1) =>
            intentos <= Valor(max_reintentos)
    /\ (pc = "intento" /\ intentos >= 1) =>
            /\ ultima.tipo = "pagina"
            /\ ultima.excepcion # Nada
    /\ pc = "intento" => intentos = intento - 1
    /\ pc = "pagina" => intentos = intento

C9_Testigo ==
    /\ max_reintentos = Algo(2)
    /\ intentos = 2
    /\ HayResultado
    /\ ~R.exito

C11_Ilegible_es_fallo ==
    [][(PaginaRecibida /\ ultima'.ilegible) =>
            /\ intento < reintentos =>
                /\ pc' = "intento"
                /\ intento' = intento + 1
            /\ intento = reintentos =>
                /\ pc' = "inactivo"
                /\ resultado' # Nada
                /\ ~Valor(resultado').exito
            /\ ~(resultado' # Nada /\ Valor(resultado').exito)]_vars

(* C12: a call with an empty or blank term, or with a class filter that   *)
(* is an integer outside 1..45, returns exito=False at once: no bootstrap *)
(* GET, no page request, no retry delay, and the token is unchanged. *)
EntradaInvalida(m, c) ==
    \/ Strip(m) = <<>>
    \/ c # Nada /\ Valor(c) \notin 1..45

C12_Entrada_invalida ==
    [][(/\ pc = "inactivo"
        /\ ultima'.tipo = "llamada"
        /\ EntradaInvalida(marca', clase_niza')) =>
            /\ pc' = "inactivo"
            /\ resultado' # Nada
            /\ ~Valor(resultado').exito
            /\ viewstate' = viewstate
            /\ intentos' = 0
            /\ bootstraps' = 0
            /\ esperas' = 0
            /\ peticiones' = <<>>]_vars

(* C13: every attempt starts at page 0 with an empty aggregate; the pages *)
(* of an attempt are requested in order from 0; the records held during   *)
(* an attempt and the records of a successful result are those of the     *)
(* pages of that attempt, in page order, and none of an earlier attempt. *)
DeIntentoYPagina(m, k, p) ==
    \/ m.expediente = <<>>
    \/ /\ Len(m.expediente) >= 3
       /\ m.expediente[2] = Texto(k)
       /\ m.expediente[3] = Texto(p)

DelIntento(marcas, k) ==
    \A i \in 1..Len(marcas) :
        DeIntentoYPagina(marcas[i], k, (i - 1) \div 15)

C13_Reintento_desde_cero ==
    /\ [][pc = "intento" =>
            /\ pc' = "pagina"
            /\ pagina' = 0
            /\ todas_marcas' = <<>>
            /\ total_registros' = 0
            /\ peticiones' = <<>>]_vars
    /\ [](\A i \in 1..Len(peticiones) :
            PaginaDePeticion(peticiones[i]) = i - 1)
    /\ [](pc = "pagina" => DelIntento(todas_marcas, intento))
    /\ []((HayResultado /\ R.exito) =>
            DelIntento(R.marcas_encontradas, intentos))

C13_Testigo ==
    /\ HayResultado
    /\ R.exito
    /\ intentos = 3
    /\ cuentas = <<15, 14>>
    /\ Len(R.marcas_encontradas) = 29
    /\ R.marcas_encontradas[29].expediente = <<"E", "3", "1", "14">>

(* the records fetched by a failed attempt are not in the result of the   *)
(* attempt that succeeds after it *)
C13_Testigo_descarte ==
    /\ HayResultado
    /\ R.exito
    /\ intentos = 2
    /\ vistos
    /\ cuentas = <<0>>
    /\ R.marcas_encontradas = <<>>

(* C14: an attempt after a failed one starts by fetching a fresh token    *)
(* from the bootstrap page, and a page that is unparsable or empty leaves *)
(* the client without the token it held. *)
C14_Token_renovado ==
    /\ [][(pc = "intento" /\ intento > 1) =>
            /\ bootstraps' = bootstraps + 1
            /\ ultima'.bootstrap # "ninguno"]_vars
    /\ [][(PaginaRecibida /\ (ultima'.ilegible \/ ultima'.marcas = <<>>)) =>
            ~TokenVerdadero(viewstate')]_vars

(* C15: with the empty token of a bootstrap page that has no marker the   *)
(* attempt goes on to its page request, which carries no token, and only  *)
(* page 0 is requested. *)
C15_Sin_token_solo_primera ==
    /\ [][(pc = "intento" /\ ultima'.bootstrap = "sin_marcador") =>
            /\ pc' = "pagina"
            /\ resultado' = Nada]_vars
    /\ [](\A i \in 1..Len(peticiones) :
            peticiones[i].ViewState = Nada =>
                PaginaDePeticion(peticiones[i]) = 0)

(* C16: after a bootstrap GET that raised, no page request is sent: the   *)
(* attempt does not go on to the pagination. *)
C16_Bootstrap_fallido ==
    /\ [][(pc = "intento" /\ ultima'.bootstrap = "excepcion") =>
            pc' # "pagina"]_vars
    /\ [][(ultima.tipo = "intento" /\ ultima.bootstrap = "excepcion") =>
            Len(peticiones') <= Len(peticiones)]_vars

(* C17 as claimed: no page request before the token acquisition step, one *)
(* acquisition per search, none between two page requests of an attempt. *)
C17_Una_adquisicion_por_busqueda ==
    /\ [](peticiones # <<>> => viewstate # Nada)
    /\ [](bootstraps <= 1)
    /\ [][(pc = "pagina" /\ pc' = "pagina") =>
            bootstraps' = bootstraps /\ viewstate' = viewstate]_vars

(* C17, amended: no page request is sent before the token acquisition    *)
(* step of the attempt has run; the bootstrap page is fetched at most     *)
(* once per attempt, at its start and only when no token is held; and     *)
(* between two page requests of an attempt neither a fetch occurs nor the *)
(* token changes. *)
C17_Una_adquisicion_por_intento ==
    /\ [](peticiones # <<>> => viewstate # Nada)
    /\ [](pc = "pagina" => viewstate # Nada)
    /\ [](bootstraps <= intentos)
    /\ [][bootstraps' > bootstraps =>
            /\ pc = "intento"
            /\ ~TokenVerdadero(viewstate)
            /\ bootstraps' = bootstraps + 1]_vars
    /\ [][(pc = "pagina" /\ pc' = "pagina") =>
            bootstraps' = bootstraps /\ viewstate' = viewstate]_vars

C17_Testigo ==
    /\ HayResultado
    /\ R.exito
    /\ intentos = 3
    /\ bootstraps = 3
    /\ Len(peticiones) = 2
    /\ viewstate = Algo("")

----------------------------------------------------------------------------
(* Properties of the viability analyser *)

(* the analysis returned by the i-th call *)
A(i) == Valor(analisis[i].valor)

(* the integer that the value written for the score converts to *)
PuntajeEntero(n) ==
    CASE n = "40" -> Algo(40)
      [] n = "200" -> Algo(200)
      [] n = "86" -> Algo(86)
      [] n = "85" -> Algo(85)
      [] n = "0" -> Algo(0)
      [] n = "-5" -> Algo(0 - 5)
      [] n = "40.7" -> Algo(40)
      [] n = "-0.5" -> Algo(0)
      [] n = "cadena 40" -> Algo(40)
      [] n = "cadena 200" -> Algo(200)
      [] n = "true" -> Algo(1)
      [] OTHER -> Nada

(* C18: for every text the call returns an analysis whose score is an     *)
(* integer in 0..85; a payload that is a whole object with a score above  *)
(* 85 yields exactly 85, with a score below 0 exactly 0, otherwise the    *)
(* score itself, and the risk level of the payload is returned as it is.  *)
C18_Puntaje_acotado ==
    \A i \in 1..Len(analisis) :
        /\ analisis[i].lanzada = Nada
        /\ A(i).porcentaje_viabilidad \in 0..85
        /\ (entrada.clase = "objeto" /\ PuntajeEntero(entrada.puntaje) # Nada) =>
            LET n == Valor(PuntajeEntero(entrada.puntaje))
            IN  /\ n > 85 => A(i).porcentaje_viabilidad = 85
                /\ n < 0 => A(i).porcentaje_viabilidad = 0
                /\ n \in 0..85 => A(i).porcentaje_viabilidad = n
                /\ entrada.riesgo \in {"BAJO", "ALTO"} =>
                    A(i).nivel_riesgo = [t |-> "str", v |-> <<entrada.riesgo>>]

C18_Testigo ==
    /\ entrada = Entrada("objeto", "200", "BAJO", "ninguna", FALSE, 0, "")
    /\ Len(response_text) = 20
    /\ Len(analisis) = 1
    /\ A(1).porcentaje_viabilidad = 85
    /\ A(1).nivel_riesgo.v = <<"BAJO">>

(* C19: no call raises, and every call returns an analysis whose risk     *)
(* level, narrative and four lists are not None. *)
C19_Analisis_completo ==
    \A i \in 1..Len(analisis) :
        /\ analisis[i].lanzada = Nada
        /\ analisis[i].valor # Nada
        /\ A(i).nivel_riesgo.t # "None"
        /\ A(i).analisis_detallado.t # "None"
        /\ A(i).marcas_conflictivas.t # "None"
        /\ A(i).recomendaciones.t # "None"
        /\ A(i).factores_riesgo.t # "None"
        /\ A(i).factores_favorables.t # "None"

(* neither the cleaned text nor the cleaned text with its closers parses *)
AmbosFallan(t) ==
    /\ json_loads(Limpiar(t)) = Nada
    /\ json_loads(Reparado(Limpiar(t))) = Nada

ListaVacia(x) == x.t = "list" /\ x.v = <<>>
ListaDeUna(x, frase) ==
    /\ x.t = "list"
    /\ Len(x.v) = 1
    /\ x.v[1].t = "str"
    /\ x.v[1].v = <<frase>>

(* C20 as claimed: when both parses fail the analysis has score 25, risk  *)
(* level ALTO, the four lists empty and the narrative of the default. *)
C20_Por_defecto_listas_vacias ==
    \A i \in 1..Len(analisis) :
        AmbosFallan(response_text) =>
            /\ A(i).porcentaje_viabilidad = 25
            /\ A(i).nivel_riesgo.t = "str"
            /\ A(i).nivel_riesgo.v = <<"ALTO">>
            /\ A(i).analisis_detallado.t = "str"
            /\ A(i).analisis_detallado.v =
                 <<"Análisis incompleto debido a respuesta malformada de Gemini">>
            /\ ListaVacia(A(i).marcas_conflictivas)
            /\ ListaVacia(A(i).recomendaciones)
            /\ ListaVacia(A(i).factores_riesgo)
            /\ ListaVacia(A(i).factores_favorables)

(* C20, amended: when both parses fail the analysis has score 25, risk    *)
(* level ALTO, no conflicting entries and no favourable factors, the one  *)
(* recommendation "Realizar análisis manual", the one risk factor "JSON   *)
(* incompleto", and the narrative of the default. *)
C20_Por_defecto ==
    \A i \in 1..Len(analisis) :
        AmbosFallan(response_text) =>
            /\ A(i).porcentaje_viabilidad = 25
            /\ A(i).nivel_riesgo.t = "str"
            /\ A(i).nivel_riesgo.v = <<"ALTO">>
            /\ A(i).analisis_detallado.t = "str"
            /\ A(i).analisis_detallado.v =
                 <<"Análisis incompleto debido a respuesta malformada de Gemini">>
            /\ ListaVacia(A(i).marcas_conflictivas)
            /\ ListaDeUna(A(i).recomendaciones, "Realizar análisis manual")
            /\ ListaDeUna(A(i).factores_riesgo, "JSON incompleto")
            /\ ListaVacia(A(i).factores_favorables)

C20_Testigo ==
    /\ entrada.clase = "otro"
    /\ entrada.nombre = "prosa"
    /\ AmbosFallan(response_text)
    /\ Valor(resultado).total_registros = 0
    /\ Len(analisis) = 1
    /\ A(1).porcentaje_viabilidad = 25

(* the brackets and braces of a text that stand outside its strings, in *)
(* order *)
Corchetes == {"{", "[", "}", "]"}

Estructura(t) ==
    LET P == {i \in 1..Len(t) :
                /\ t[i] \in Corchetes
                /\ count(SubSeq(t, 1, i), Comilla) % 2 = 0}
        pos == [k \in 1..Cardinality(P) |->
                    CHOOSE i \in P : Cardinality({j \in P : j < i}) = k - 1]
    IN  [k \in 1..Cardinality(P) |-> t[pos[k]]]

(* the openers that cs leaves open on top of pila, outermost first *)
RECURSIVE Apilar(_, _)
Apilar(cs, pila) ==
    IF cs = <<>> THEN pila
    ELSE Apilar(Tail(cs),
                IF Head(cs) \in {"{", "["} THEN Append(pila, Head(cs))
                ELSE IF pila # <<>> THEN SubSeq(pila, 1, Len(pila) - 1)
                ELSE pila)

Abiertos(t) == Apilar(Estructura(t), <<>>)
TerminaEnCadena(t) == count(t, Comilla) % 2 = 1

(* the text closed as JSON asks: the string, then each opener's closer,   *)
(* innermost first *)
Cierres(pila) ==
    [j \in 1..Len(pila) |-> IF pila[Len(pila) + 1 - j] = "{" THEN "}" ELSE "]"]

CierreCorrecto(t) ==
    t \o (IF TerminaEnCadena(t) THEN <<Comilla>> ELSE <<>>) \o Cierres(Abiertos(t))

(* a text that is a valid JSON value except that its tail is missing: an  *)
(* unclosed string and/or missing closers *)
SoloFaltanCierres(t) ==
    /\ json_loads(t) = Nada
    /\ json_loads(CierreCorrecto(t)) # Nada

(* every list left open is inside every object left open, so that all    *)
(* the "]" come before all the "}" *)
EnOrden(pila) ==
    \A a, b \in 1..Len(pila) : a < b => ~(pila[a] = "[" /\ pila[b] = "{")

CierresEnOrden(t) == EnOrden(Abiertos(t))

(* the counts of brackets and braces are those of the openers left open: *)
(* none stands inside a string *)
CuentasFieles(t) ==
    /\ count(t, "{") - count(t, "}") = count(Abiertos(t), "{")
    /\ count(t, "[") - count(t, "]") = count(Abiertos(t), "[")

(* the analysis has the fields of the default payload of the repair *)
EsPorDefecto(a) ==
    /\ a.porcentaje_viabilidad = 25
    /\ a.nivel_riesgo = JStr(<<"ALTO">>)
    /\ ListaVacia(a.marcas_conflictivas)
    /\ ListaDeUna(a.recomendaciones, "Realizar análisis manual")
    /\ ListaDeUna(a.factores_riesgo, "JSON incompleto")
    /\ ListaVacia(a.factores_favorables)

(* the values of the seven members of the complete payload, and the      *)
(* defaults of the seven fields *)
ValoresCompletos ==
    << JInt(40),
       JStr(<<"ALTO">>),
       JList(<<JDict(<< <<<<"denominacion">>, JStr(<<"NIKE">>)>>,
                        <<<<"clase">>, JInt(25)>> >>)>>),
       JStr(<<"La", " ", "marca", " ", "es", " ", "similar">>),
       JList(<<JStr(<<"Modificar">>), JStr(<<"Consultar">>)>>),
       JList(<<JStr(<<"Fonética">>)>>),
       JList(<<>>) >>

ValoresPorDefecto ==
    << JInt(50), JStr(<<"MEDIO">>), JList(<<>>), JStr(<<>>), JList(<<>>),
       JList(<<>>), JList(<<>>) >>

(* the complete payload cut right after its m-th member *)
HastaMiembro(m) ==
    <<"{">> \o Unir(SubSeq(<< Miembro("porcentaje_viabilidad", TextoPuntaje("40")),
                              Miembro("nivel_riesgo", TextoRiesgo("ALTO")) >>
                           \o RestoDeMiembros, 1, m))

(* the analysis has the first m fields of the complete payload and the   *)
(* defaults of the others *)
TieneLosPrimeros(a, m) ==
    LET campo(j) == IF j <= m THEN ValoresCompletos[j] ELSE ValoresPorDefecto[j]
    IN  /\ a.porcentaje_viabilidad = campo(1).v
        /\ a.nivel_riesgo = campo(2)
        /\ a.marcas_conflictivas = campo(3)
        /\ a.analisis_detallado = campo(4)
        /\ a.recomendaciones = campo(5)
        /\ a.factores_riesgo = campo(6)
        /\ a.factores_favorables = campo(7)

C21_Testigo_anidado ==
    /\ entrada.clase = "cortado"
    /\ Abiertos(response_text) = <<"{", "[", "{">>
    /\ TerminaEnCadena(response_text)
    /\ SoloFaltanCierres(response_text)
    /\ Len(analisis) = 1
    /\ EsPorDefecto(A(1))

(* the fields of an analysis that come from the text *)
Campos(a) ==
    <<a.porcentaje_viabilidad, a.nivel_riesgo, a.marcas_conflictivas,
      a.analisis_detallado, a.recomendaciones, a.factores_riesgo,
      a.factores_favorables>>

(* what the call returns for the same text with the result of a search   *)
(* of another total *)
ConOtraBusqueda(total) ==
    _parsear_respuesta_gemini(response_text,
        ResultadoExitoso(MarcaValida, Nada, <<>>, total))

(* the try of the call raises, so that the call returns the fallback *)
PorRespaldo == CuerpoDelTry(response_text, Valor(resultado)).lanzada # Nada

IgualOPorConteo(a, otra, total) ==
    \/ Campos(a) = Campos(Valor(otra.valor))
    \/ /\ a = _analisis_fallback(Valor(resultado), response_text)
       /\ Valor(otra.valor) =
            _analisis_fallback(ResultadoExitoso(MarcaValida, Nada, <<>>, total),
                               response_text)

PuntajeEsperado(p) ==
    IF p = "ausente" THEN 50
    ELSE IF Valor(PuntajeEntero(p)) > 85 THEN 85
    ELSE IF Valor(PuntajeEntero(p)) < 0 THEN 0
    ELSE Valor(PuntajeEntero(p))

RiesgoEsperado(r) ==
    IF r = "ausente" THEN JStr(<<"MEDIO">>)
    ELSE IF r = "null" THEN JNone
    ELSE JStr(<<r>>)

TieneElResto(a, resto) ==
    LET campo(j) == IF resto THEN ValoresCompletos[j] ELSE ValoresPorDefecto[j]
    IN  /\ a.marcas_conflictivas = campo(3)
        /\ a.analisis_detallado = campo(4)
        /\ a.recomendaciones = campo(5)
        /\ a.factores_riesgo = campo(6)
        /\ a.factores_favorables = campo(7)

PuntajeConvertible(p) == p = "ausente" \/ PuntajeEntero(p) # Nada

C23_Testigo_respaldo ==
    /\ entrada = Entrada("objeto", "cadena alto", "ALTO", "ninguna", FALSE, 0, "")
    /\ Valor(resultado).total_registros = 0
    /\ Len(analisis) = 1
    /\ A(1).porcentaje_viabilidad = 75
    /\ A(1).nivel_riesgo = JStr(<<"BAJO">>)

(* the score and the risk level that go with a number of similar marks *)
PuntajePorConteo(total) ==
    CASE total = 0 -> 75
      [] total \in 1..3 -> 60
      [] total \in 4..10 -> 40
      [] OTHER -> 25

NivelPorConteo(total) ==
    CASE total = 0 -> "BAJO"
      [] total \in 1..3 -> "MEDIO"
      [] total \in 4..10 -> "ALTO"
      [] OTHER -> "MUY_ALTO"

(* the text is, as written or once repaired, a value that is not an       *)
(* object, or an object whose score does not convert to an integer *)
SinObjetoOSinPuntaje ==
    \/ entrada.clase = "otro"
       /\ entrada.nombre \in {"lista", "numero", "cadena", "null",
                              "lista cortada", "puntaje cortado"}
    \/ entrada.clase = "objeto" /\ ~PuntajeConvertible(entrada.puntaje)

(* C30: a text that parses, directly or after repair, to a value that is  *)
(* not an object, or to an object whose score does not convert to an      *)
(* integer, yields the fallback: score 75, 60, 40 or 25 and risk level    *)
(* BAJO, MEDIO, ALTO or MUY_ALTO for a total_registros of 0, 1..3, 4..10  *)
(* or more, no conflicting entries, and the raw text as narrative. *)
C30_Respaldo_por_conteo ==
    \A i \in 1..Len(analisis) :
        SinObjetoOSinPuntaje =>
            /\ analisis[i].lanzada = Nada
            /\ A(i).porcentaje_viabilidad =
                 PuntajePorConteo(Valor(resultado).total_registros)
            /\ A(i).nivel_riesgo =
                 JStr(<<NivelPorConteo(Valor(resultado).total_registros)>>)
            /\ ListaVacia(A(i).marcas_conflictivas)
            /\ A(i).analisis_detallado = JStr(response_text)

(* a null score, for a search of three records *)
C30_Testigo ==
    /\ entrada = Entrada("objeto", "null", "BAJO", "json", TRUE, 0, "")
    /\ Valor(resultado).total_registros = 3
    /\ Len(analisis) = 1
    /\ A(1).porcentaje_viabilidad = 60
    /\ A(1).nivel_riesgo = JStr(<<"MEDIO">>)
    /\ A(1).analisis_detallado.v = response_text
    /\ Len(response_text) > Len(CargaCompleta)

----------------------------------------------------------------------------
(* Rows of fewer than 8 cells *)

(* the record of the well-formed row i of page p of attempt k *)
RegistroDeFila(k, p, i) ==
    [denominacion |-> <<"D", Texto(p), Texto(i)>>,
     expediente |-> <<"E", Texto(k), Texto(p), Texto(i)>>,
     registro |-> <<"R", Texto(i)>>,
     titular |-> <<"T", Texto(i)>>,
     clase |-> <<"7">>,
     estado |-> <<>>,
     tipo |-> <<"M">>]

(* the records of a page of n well-formed rows and no other row *)
RegistrosSinLaFila(k, p, n) == [i \in 1..n |-> RegistroDeFila(k, p, i)]

(* the page just received carried a row of 5 cells among its rows *)
RecibidaConFilaCorta == PaginaRecibida /\ ultima'.con_fila_corta # Nada

(* C24: a page that carries a row of fewer than 8 cells among well-formed  *)
(* rows is read without error and gives exactly the records of its        *)
(* well-formed rows, in order, as the same page without that row would;   *)
(* the search is not failed by it: it goes on to the next page or returns *)
(* a successful result that holds those records. *)
C24_Fila_corta_sin_registro ==
    [][RecibidaConFilaCorta =>
        /\ ~ultima'.ilegible
        /\ ultima'.marcas
              = RegistrosSinLaFila(intento, pagina,
                                   Valor(ultima'.con_fila_corta))
        /\ cuentas' = Append(cuentas, Valor(ultima'.con_fila_corta))
        /\ \/ pc' = "pagina" /\ resultado' = Nada
                /\ todas_marcas' = todas_marcas \o ultima'.marcas
           \/ /\ pc' = "inactivo"
              /\ Valor(resultado').exito
              /\ Valor(resultado').marcas_encontradas
                    = todas_marcas \o ultima'.marcas]_vars

(* a full page of 15 well-formed rows and one row of 5 cells gave its 15   *)
(* records and the search went on to page 1 *)
C24_Testigo ==
    /\ pc = "pagina"
    /\ pagina = 1
    /\ ultima.tipo = "pagina"
    /\ ultima.excepcion = Nada
    /\ ultima.con_fila_corta = Algo(FilasPorPagina)
    /\ Len(todas_marcas) = FilasPorPagina
    /\ resultado = Nada

(* a page of 2 well-formed rows and one row of 5 cells ended the search    *)
(* with a successful result of 2 records *)
C24_Testigo_final ==
    /\ pc = "inactivo"
    /\ ultima.tipo = "pagina"
    /\ ultima.excepcion = Nada
    /\ ultima.con_fila_corta = Algo(FilasConRara)
    /\ resultado # Nada
    /\ Valor(resultado).exito
    /\ Len(Valor(resultado).marcas_encontradas) = FilasConRara

----------------------------------------------------------------------------
(* The page requests of one attempt *)

(* a page request has just been sent *)
PeticionEnviada == pc = "pagina" /\ Len(peticiones') = Len(peticiones) + 1

(* request number j of the attempt (from 1) is the request for page j - 1: *)
(* the submit-search marker and no pagination fields on page 0, the        *)
(* pagination marker with offset 15 * (j - 1) and 15 rows and no submit    *)
(* marker on the later pages *)
EsPeticionDePagina(d, j) ==
    IF j = 1
    THEN /\ d.busquedaId2
         /\ d.source = "frmBsqFonetica:busquedaId2"
         /\ d.pagination = Nada
    ELSE /\ ~d.busquedaId2
         /\ d.source = "frmBsqFonetica:resultadoExpediente"
         /\ d.pagination = Algo([first |-> FilasPorPagina * (j - 1),
                                 rows |-> FilasPorPagina])

(* the token field is sent exactly when the held token is non-empty, and   *)
(* then it is the held token *)
LlevaElToken(d, vs) ==
    IF vs # Nada /\ Valor(vs) # ""
    THEN d.ViewState = vs
    ELSE d.ViewState = Nada

(* C26: within an attempt the page requests carry the indices 0, 1, 2, ... *)
(* in order, none skipped and none repeated; exactly the request for page  *)
(* 0 carries the submit-search marker and no pagination fields; the        *)
(* request for page k >= 1 carries the pagination marker with row offset   *)
(* 15 * k and row count 15 and no submit marker; the token field is sent   *)
(* exactly when the held token is non-empty. *)
C26_Peticiones_en_orden ==
    /\ [][PeticionEnviada =>
            /\ pagina = Len(peticiones)
            /\ peticiones' = Append(peticiones, peticiones'[Len(peticiones')])
            /\ EsPeticionDePagina(peticiones'[Len(peticiones')], pagina + 1)
            /\ LlevaElToken(peticiones'[Len(peticiones')], viewstate)]_vars
    /\ [](pc = "pagina" => pagina = Len(peticiones))
    /\ [](\A j \in 1..Len(peticiones) :
            /\ EsPeticionDePagina(peticiones[j], j)
            /\ pc = "pagina" => LlevaElToken(peticiones[j], viewstate))

(* three pages have been requested in one attempt with a token held: page *)
(* 0 by the submit marker, pages 1 and 2 by offsets 15 and 30 *)
C26_Testigo ==
    /\ pc = "pagina"
    /\ pagina = 3
    /\ Len(peticiones) = 3
    /\ viewstate = Algo("vs1")
    /\ peticiones[1].busquedaId2
    /\ peticiones[2].pagination = Algo([first |-> 15, rows |-> 15])
    /\ peticiones[3].pagination = Algo([first |-> 30, rows |-> 15])
    /\ peticiones[3].ViewState = Algo("vs1")

(* two pages have been requested with the empty token: no token field *)
C26_Testigo_sin_token ==
    /\ pc = "pagina"
    /\ Len(peticiones) = 2
    /\ viewstate = Algo("")
    /\ peticiones[1].ViewState = Nada
    /\ peticiones[2].ViewState = Nada

----------------------------------------------------------------------------
(* The total of a successful result *)

(* C27: in every successful result of buscar_fonetica total_registros is  *)
(* at least the number of records returned, after any sequence of pages   *)
(* with or without a reported count of further records. *)
C27_Total_al_menos_registros ==
    (resultado # Nada /\ Valor(resultado).exito) =>
        Valor(resultado).total_registros
            >= Len(Valor(resultado).marcas_encontradas)

----------------------------------------------------------------------------
(* The token of a client instance *)

(* thread h completes a bootstrap fetch in this step *)
HiloTerminaBootstrap(h) ==
    hilos[h].pc = "bootstrap" /\ hilos'[h].pc # "bootstrap"

(* a page request of thread h in this step sends the token field d *)
HiloEnvia(h, d) ==
    /\ hilos[h].pc = "pagina"
    /\ hilos'[h].enviado # hilos[h].enviado
    /\ hilos'[h].enviado = Algo(d)

(* C28: once the client instance holds a non-empty token no later step    *)
(* changes or clears it, and no further bootstrap fetch is made on the    *)
(* instance: every page request that follows sends that token. *)
C28_Token_conservado ==
    [][TokenVerdadero(viewstate) =>
        /\ viewstate' = viewstate
        /\ bootstraps' <= bootstraps
        /\ \A h \in Hilos : ~HiloTerminaBootstrap(h)
        /\ \A h \in Hilos :
              hilos'[h].enviado # hilos[h].enviado =>
                  hilos'[h].enviado \in {Nada, Algo(viewstate)}
        /\ Len(peticiones') = Len(peticiones) + 1 =>
              peticiones'[Len(peticiones')].ViewState = viewstate]_vars

----------------------------------------------------------------------------
(* Unexpected exceptions *)

(* e is caught by "except Exception", not by the two clauses before it *)
EsInesperada(e) == ~EsTimeout(e) /\ ~EsRequestException(e)

(* the last step of the call was a page request that raised an exception  *)
(* of neither kind *)
TrasErrorInesperado ==
    /\ ultima.tipo = "pagina"
    /\ ultima.excepcion # Nada
    /\ EsInesperada(Valor(ultima.excepcion))

(* C29: an exception other than a timeout or a connection/HTTP error      *)
(* raised during an attempt ends the query at once with exito=False and   *)
(* the unexpected-error detail, also when attempts remain: no further     *)
(* attempt, request, bootstrap fetch or retry delay of the query follows. *)
C29_Error_inesperado_termina ==
    /\ [][\A e \in Excepciones :
            (PaginaFallida(e) /\ EsInesperada(e)) =>
                /\ pc' = "inactivo"
                /\ resultado' # Nada
                /\ ~Valor(resultado').exito
                /\ Valor(resultado').error
                      = Algo(<<"Error inesperado: ", Detalle(e)>>)
                /\ Valor(resultado').marcas_encontradas = <<>>
                /\ intentos' = intentos
                /\ esperas' = esperas
                /\ bootstraps' = bootstraps]_vars
    /\ [](TrasErrorInesperado => pc = "inactivo")
    /\ [][TrasErrorInesperado => ultima'.tipo = "llamada"]_vars

(* the first attempt of a call with three attempts ended in an unexpected *)
(* exception, and the call has returned the error *)
C29_Testigo ==
    /\ TrasErrorInesperado
    /\ pc = "inactivo"
    /\ reintentos = MAX_REINTENTOS
    /\ intentos = 1
    /\ esperas = 0
    /\ resultado # Nada
    /\ ~Valor(resultado).exito
    /\ Valor(resultado).error = Algo(<<"Error inesperado: ", "Otra">>)

----------------------------------------------------------------------------
(* Properties of the search by denomination *)

(* the call has returned or raised *)
ConsultaTerminada == consulta.pc = "libre" /\ consulta.response_inicial # Nada

(* the request raised an exception *)
FalloDeTransporte(r) == r # Nada /\ Valor(r).excepcion # Nada

(* the request was answered with a status other than 200 *)
StatusDeError(r) ==
    r # Nada /\ Valor(r).excepcion = Nada /\ Valor(r).status_code # STATUS_OK

(* the base page was served without a ViewState input *)
SinViewState(r) ==
    /\ r # Nada
    /\ Valor(r).excepcion = Nada
    /\ Valor(r).status_code = STATUS_OK
    /\ Valor(r).viewstate_input = Nada

FalloLaConexion ==
    \/ FalloDeTransporte(consulta.response_inicial)
    \/ StatusDeError(consulta.response_inicial)
    \/ SinViewState(consulta.response_inicial)
    \/ FalloDeTransporte(consulta.response_busqueda)
    \/ StatusDeError(consulta.response_busqueda)

(* what the registry put in the text of the search response *)
CuerpoServido == Valor(Valor(consulta.response_busqueda).cuerpo)

(* a result indicator: a positive reported total, rows of the result     *)
(* table, or two indicator words with the term *)
HayIndicador(c) ==
    \/ c.total \in {"tres", "diez"}
    \/ c.tabla = "filas"
    \/ c.claves >= 2 /\ c.termino # "sin"

EstadoEsperado ==
    IF FalloLaConexion THEN "ERROR_CONEXION"
    ELSE IF ~HayIndicador(CuerpoServido) /\ CuerpoServido.vacio
    THEN "POSIBLEMENTE_DISPONIBLE"
    ELSE "REQUIERE_ANALISIS"

(* C25: buscar_impi_denominacion never raises and returns one of three    *)
(* statuses: ERROR_CONEXION exactly when a request raised, was answered   *)
(* with a status other than 200, or the base page had no ViewState input; *)
(* POSIBLEMENTE_DISPONIBLE exactly when no result indicator matched and   *)
(* the empty-result marker is present; REQUIERE_ANALISIS otherwise. *)
C25_Tres_estados ==
    /\ consulta.lanzada = Nada
    /\ consulta.pc # "libre" => consulta.retorno = Nada
    /\ ConsultaTerminada =>
        /\ consulta.retorno \in {Algo("ERROR_CONEXION"),
                                 Algo("POSIBLEMENTE_DISPONIBLE"),
                                 Algo("REQUIERE_ANALISIS")}
        /\ consulta.retorno = Algo(EstadoEsperado)

(* the empty-result marker with a reported total of 0, the table without *)
(* rows and indicator words without the term: possibly available *)
C25_Testigo ==
    /\ ConsultaTerminada
    /\ ~FalloLaConexion
    /\ CuerpoServido.vacio
    /\ CuerpoServido.total = "cero"
    /\ CuerpoServido.tabla = "solo_id"
    /\ CuerpoServido.claves = 3
    /\ CuerpoServido.termino = "sin"
    /\ consulta.retorno = Algo("POSIBLEMENTE_DISPONIBLE")

(* the empty-result marker together with a positive total: analysis *)
C25_Testigo_indicador ==
    /\ ConsultaTerminada
    /\ ~FalloLaConexion
    /\ CuerpoServido.vacio
    /\ CuerpoServido.total = "diez"
    /\ consulta.retorno = Algo("REQUIERE_ANALISIS")

(* an unexpected exception of the search request: connection error *)
C25_Testigo_error ==
    /\ ConsultaTerminada
    /\ consulta.response_busqueda # Nada
    /\ Valor(consulta.response_busqueda).excepcion = Algo("Otra")
    /\ consulta.retorno = Algo("ERROR_CONEXION")

====
